---- MODULE Spec2Model ----
(***************************************************************************)
(* Message dispatch pipeline and conversation memory of whats-bot.         *)
(*                                                                         *)
(*   ConversationMemory   src/unnamed/part_002  (core/memory.js)           *)
(*   WhatsAppClient       src/unnamed/part_002  (core/whatsapp.js)         *)
(*   MessageHandler       src/src/handlers/messageHandler.js               *)
(*   CommandHandler       src/unnamed/part_004  (handlers/commandHandler)  *)
(*   ResponseHandler      src/unnamed/part_004  (handlers/responseHandler) *)
(*   GeminiAI             src/src/core/gemini.js                           *)
(*   Helpers              src/src/utils/helpers.js                         *)
(*                                                                         *)
(* Time is in milliseconds (Date.now()).  Every handler runs atomically    *)
(* between two awaits of real I/O (storage write, generation, send): that  *)
(* is the granularity of Node's event loop.                                *)
(***************************************************************************)
EXTENDS Integers, Sequences, FiniteSets, TLC

VARIABLES
    now,            \* Date.now()
    conversations,  \* ConversationMemory.conversations (in-memory cache)
    summaries,      \* ConversationMemory.summaries
    diskConv,       \* <conversationPath>/<id>.json
    diskSum,        \* <conversationPath>/<id>_summary.json
    appended,       \* history: number of addMessage calls per conversation id
    lastContext,    \* the value the last getConversationContext call returned
    restarts,       \* history: number of process restarts
    cooldownMap,    \* MessageHandler.cooldownMap
    userSettings,   \* CommandHandler.userSettings
    responseFrequencyLimit, \* MessageHandler.responseFrequencyLimit (configuration)
    tasks,          \* the handleMessage call of each inbound event: where it stands
    nEvents,        \* number of inbound events received
    sent,           \* history: the calls of the send capability, in order
    admissions,     \* history: the generation calls (frequency check passed), in order
    ticks,          \* history: number of clock steps
    boot,           \* WhatsAppAIBot start-up: how far initialize() and start() have come
    cleanup,        \* the cleanupOldConversations call in progress, if any
    ignoredContacts, \* MessageHandler.ignoredContacts
    responseHandler, \* ResponseHandler and its GeminiAI: the maxResponseLength of each, a call in progress
    calls,          \* the addMessage calls in progress that no event handler made
    overlapped,     \* history: conversations whose addMessage calls did not run one after the other
    lastOp          \* history: the operation that made the last step

memVars == <<conversations, summaries, diskConv, diskSum>>
pipeVars == <<cooldownMap, userSettings, responseFrequencyLimit, tasks, nEvents,
              sent, admissions, ticks, boot, cleanup, ignoredContacts, calls,
              overlapped, responseHandler>>
vars == <<now, conversations, summaries, diskConv, diskSum, appended,
          lastContext, restarts, lastOp, cooldownMap, userSettings,
          responseFrequencyLimit, tasks, nEvents, sent, admissions, ticks,
          boot, cleanup, ignoredContacts, calls, overlapped, responseHandler>>

(***************************************************************************)
(* Configuration (config/default.json, documented in README.md).           *)
(***************************************************************************)
maxContextMessages == 10
summarizationThreshold == 20

(***************************************************************************)
(* Bounds of the model.                                                    *)
(***************************************************************************)
MaxAppends == 4
MaxEvents == 2
MaxInFlight == 2
MaxTicks == 1
MaxFrequencyLimit == 1
MaxRestarts == 2
PriorMessages == 19
MaxChecks == 5
MaxFrequencyTicks == 3
FrequencyLimit == 3
MaxCommandCalls == 4
MaxCommandTicks == 1
StartTime == 1000000

Contacts == {"111@c.us", "222@c.us"}

\* filtering.ignoredContacts of the configuration: the ignore list a new
\* MessageHandler starts with (messageHandler.js line 21)
IgnoredContacts == {"999@c.us"}

\* the contacts that can have a conversation, settings and cooldown entries
KnownContacts == Contacts \cup IgnoredContacts

\* Helpers.generateConversationId: strip "@c.us", then every character that
\* is not a letter or a digit becomes "_".
generateConversationId(contactId) ==
    CASE contactId = "111@c.us" -> "111"
      [] contactId = "222@c.us" -> "222"
      [] contactId = "999@c.us" -> "999"
      [] contactId = "333@g.us" -> "333_g_us"
      [] contactId = "status@broadcast" -> "status_broadcast"
      [] OTHER -> "bot"

ConvIds == {generateConversationId(c) : c \in Contacts}
StoreIds == {generateConversationId(c) : c \in KnownContacts}

\* the name loadExistingConversations derives from "<id>_summary.json"
SummaryFileId(cid) == CASE cid = "111" -> "111_summary"
                        [] cid = "222" -> "222_summary"
                        [] cid = "999" -> "999_summary"
                        [] OTHER -> "other_summary"

CacheIds == ConvIds \cup {SummaryFileId(c) : c \in ConvIds}
StoreCacheIds == StoreIds \cup {SummaryFileId(c) : c \in StoreIds}

None == [kind |-> "none"]

(***************************************************************************)
(* Array.prototype.slice with the negative arguments the code uses.        *)
(***************************************************************************)
Max(a, b) == IF a >= b THEN a ELSE b
Min(a, b) == IF a <= b THEN a ELSE b

\* s.slice(-k): the last k elements; slice(-0) is slice(0), the whole array
SliceLast(s, k) ==
    IF k = 0 THEN s
    ELSE SubSeq(s, Max(Len(s) - k, 0) + 1, Len(s))

\* s.slice(0, -k): all but the last k elements; slice(0, -0) is empty
SliceButLast(s, k) ==
    IF k = 0 THEN <<>>
    ELSE SubSeq(s, 1, Max(Len(s) - k, 0))

(***************************************************************************)
(* Message bodies of the model and what the tokenizer of extractKeyTopics  *)
(* makes of each: toLowerCase, replace(/[^\w\s]/g, ''), split(/\s+/), then *)
(* filter(length > 2 and not a stop word).                                 *)
(***************************************************************************)
Tokenize(body) ==
    CASE body = "Hello world" -> <<"hello", "world">>
      [] body = "the 2024 plan, hello" -> <<"2024", "plan", "hello">>
      [] body = "plan 7 for 365 days" -> <<"plan", "365", "days">>
      [] body = "hi" -> <<>>
      [] body = "/stop" -> <<"stop">>
      [] body = "/start" -> <<"start">>
      [] body = "/help" -> <<"help">>
      [] body = "/xyz" -> <<"xyz">>
      [] body = "reply text" -> <<"reply", "text">>
      [] body = "fallback text" -> <<"fallback", "text">>
      [] body = "/status" -> <<"status">>
      [] body = "/info" -> <<"info">>
      [] body = "/personalities" -> <<"personalities">>
      [] body = "I'm sorry, I'm having trouble processing your message right now. Please try again in a moment." ->
            <<"sorry", "having", "trouble", "processing", "your", "message",
              "right", "now", "please", "try", "again", "moment">>
      [] body = "I apologize, but I'm experiencing some technical difficulties. Could you please rephrase your question?" ->
            <<"apologize", "experiencing", "some", "technical",
              "difficulties", "please", "rephrase", "your", "question">>
      [] body = "I apologize, but I'm experiencing some technical difficulties. Could you please rephrase your que..." ->
            <<"apologize", "experiencing", "some", "technical",
              "difficulties", "please", "rephrase", "your", "que">>
      [] body = "I'm having trouble understanding that right now. Could you try asking in a different way?" ->
            <<"having", "trouble", "understanding", "that", "right", "now",
              "try", "asking", "different", "way">>
      [] body = "I'm sorry, I'm not able to respond properly at the moment. Please try again later." ->
            <<"sorry", "not", "able", "respond", "properly", "moment",
              "please", "try", "again", "later">>
      [] body = "I'm experiencing some issues right now. Please give me a moment and try again." ->
            <<"experiencing", "some", "issues", "right", "now", "please",
              "give", "moment", "try", "again">>
      \* "", blanks, "/" and "/ " leave no word
      [] OTHER -> <<>>

\* a key that Object.entries lists as an array index: canonical decimal
IndexKeyValue(w) ==
    CASE w = "2024" -> 2024
      [] w = "365" -> 365
      [] OTHER -> -1

RECURSIVE AllWords(_)
AllWords(messages) ==
    IF messages = <<>> THEN <<>>
    ELSE (IF Head(messages).body # "" THEN Tokenize(Head(messages).body) ELSE <<>>)
         \o AllWords(Tail(messages))

Count(w, ws) == Cardinality({i \in 1..Len(ws) : ws[i] = w})

RECURSIVE FirstOccurrences(_, _)
FirstOccurrences(ws, seen) ==
    IF ws = <<>> THEN <<>>
    ELSE IF Head(ws) \in seen THEN FirstOccurrences(Tail(ws), seen)
    ELSE <<Head(ws)>> \o FirstOccurrences(Tail(ws), seen \cup {Head(ws)})

RECURSIVE AscendingIndexKeys(_)
AscendingIndexKeys(S) ==
    IF S = {} THEN <<>>
    ELSE LET w == CHOOSE x \in S : \A y \in S : IndexKeyValue(x) <= IndexKeyValue(y)
         IN  <<w>> \o AscendingIndexKeys(S \ {w})

\* Object.entries(wordCount): index keys ascending, then the other keys in
\* insertion order
ObjectKeys(ws) ==
    LET ins == FirstOccurrences(ws, {})
        idx == {ins[i] : i \in {j \in 1..Len(ins) : IndexKeyValue(ins[j]) >= 0}}
    IN  AscendingIndexKeys(idx) \o SelectSeq(ins, LAMBDA w : IndexKeyValue(w) < 0)

\* Array.prototype.sort(([,a],[,b]) => b - a): stable, by decreasing count
RECURSIVE InsertByCount(_, _, _)
InsertByCount(w, sorted, ws) ==
    IF sorted = <<>> THEN <<w>>
    ELSE IF Count(Head(sorted), ws) >= Count(w, ws)
         THEN <<Head(sorted)>> \o InsertByCount(w, Tail(sorted), ws)
         ELSE <<w>> \o sorted

RECURSIVE SortByCount(_, _)
SortByCount(keys, ws) ==
    IF keys = <<>> THEN <<>>
    ELSE InsertByCount(keys[Len(keys)], SortByCount(SubSeq(keys, 1, Len(keys) - 1), ws), ws)

extractKeyTopics(messages) ==
    LET ws == AllWords(messages)
        sorted == SortByCount(ObjectKeys(ws), ws)
    IN  SubSeq(sorted, 1, Min(10, Len(sorted)))

(***************************************************************************)
(* ConversationMemory                                                      *)
(***************************************************************************)
NewConversation(cid, t) ==
    [kind |-> "conversation", id |-> cid, messages |-> <<>>,
     createdAt |-> t, updatedAt |-> t]

StoredMessage(message, t) ==
    [id |-> message.id, from |-> message.from, body |-> message.body,
     timestamp |-> message.timestamp, type |-> message.type, addedAt |-> t]

\* addMessage up to its first await: create the conversation if absent, push
\* the message, set updatedAt
addMessagePush(convs, cid, message, t) ==
    LET c == IF convs[cid].kind = "none" THEN NewConversation(cid, t) ELSE convs[cid]
    IN  [convs EXCEPT ![cid] =
            [c EXCEPT !.messages = Append(@, StoredMessage(message, t)),
                      !.updatedAt = t]]

\* saveConversation: the record is serialized when writeJson is called
saveConversation(convs, disk, cid) ==
    IF convs[cid].kind = "none" THEN disk
    ELSE [disk EXCEPT ![cid] = convs[cid]]

\* mutant: the threshold compared with > instead of >=
summarizeAppliesStrict(convs, cid) ==
    /\ convs[cid].kind # "none"
    /\ Len(convs[cid].messages) > summarizationThreshold

\* the guard of summarizeConversation (and of its call in addMessage)
summarizeApplies(convs, cid) ==
    /\ convs[cid].kind # "none"
    /\ Len(convs[cid].messages) >= summarizationThreshold

\* a summary made of the whole list, the messages that stay included
BuildSummaryWhole(cid, messages, t) ==
    [kind |-> "summary", conversationId |-> cid, messageCount |-> Len(messages),
     timeRange |-> [start |-> messages[1].timestamp,
                    end |-> messages[Len(messages)].timestamp],
     keyTopics |-> extractKeyTopics(messages),
     createdAt |-> t]

\* undefined (the ?.timestamp of an empty list) is -1
BuildSummary(cid, messages, t) ==
    LET messagesToSummarize == SliceButLast(messages, maxContextMessages)
        n == Len(messagesToSummarize)
    IN  [kind |-> "summary", conversationId |-> cid, messageCount |-> n,
         timeRange |-> [start |-> IF n = 0 THEN -1 ELSE messagesToSummarize[1].timestamp,
                        end |-> IF n = 0 THEN -1 ELSE messagesToSummarize[n].timestamp],
         keyTopics |-> extractKeyTopics(messagesToSummarize),
         createdAt |-> t]

\* what summarizeConversation keeps in conversation.messages
RecentMessages(messages) == SliceLast(messages, maxContextMessages)

\* summarizeConversation, in memory: the summary replaces any earlier one and
\* the conversation keeps the recent messages
summarizeSummaries(convs, sums, cid, t) ==
    IF summarizeApplies(convs, cid)
    THEN [sums EXCEPT ![cid] = BuildSummary(cid, convs[cid].messages, t)]
    ELSE sums

summarizeConversations(convs, cid) ==
    IF summarizeApplies(convs, cid)
    THEN [convs EXCEPT ![cid].messages = RecentMessages(@)]
    ELSE convs

\* summarizeConversation, on disk: saveSummary only; the conversation record
\* is not written again
summarizeDiskSum(convs, sums, dsum, cid, t) ==
    IF summarizeApplies(convs, cid)
    THEN [dsum EXCEPT ![cid] = summarizeSummaries(convs, sums, cid, t)[cid]]
    ELSE dsum

\* getConversationContext: maxMessages 0 stands for null (|| takes the default);
\* totalMessages is undefined (-1) when there is no conversation
getConversationContext(convs, sums, cid, maxMessages) ==
    IF convs[cid].kind = "none"
    THEN [messages |-> <<>>, summary |-> None, totalMessages |-> -1]
    ELSE LET limit == IF maxMessages = 0 THEN maxContextMessages ELSE maxMessages
         IN  [messages |-> SliceLast(convs[cid].messages, limit),
              summary |-> sums[cid],
              totalMessages |-> Len(convs[cid].messages)]

\* mutant: splice(-limit) instead of slice(-limit) takes the messages out of
\* the conversation
getContextSplices(convs, cid, maxMessages) ==
    IF convs[cid].kind = "none" THEN convs
    ELSE [convs EXCEPT ![cid].messages =
             SliceButLast(@, IF maxMessages = 0 THEN maxContextMessages ELSE maxMessages)]

\* the conversation cache after a getConversationContext call: slice copies
getContextLeaves(convs, cid, maxMessages) == convs

\* loadExistingConversations into a fresh ConversationMemory: every *.json
\* file becomes a cache entry named after the file, the <id>_summary.json
\* files included
loadConversations(dconv, dsum) ==
    [k \in StoreCacheIds |->
        IF k \in StoreIds THEN dconv[k]
        ELSE LET owner == CHOOSE c \in StoreIds : SummaryFileId(c) = k
             IN  dsum[owner]]

loadSummaries(dconv, dsum) ==
    [c \in StoreIds |-> IF dconv[c].kind # "none" THEN dsum[c] ELSE None]

(***************************************************************************)
(* Configuration read by the pipeline (documented defaults).  With the     *)
(* documented bot.responseDelay of 0, sendResponse does not sleep.         *)
(***************************************************************************)
maxResponseLength == 100
commandsEnabled == TRUE
availableCommands == {"help", "status", "stop", "start", "info", "personalities"}
ignoreGroups == TRUE
autoResponsesEnabled == TRUE
\* the short cooldown of handleMessage and the window of checkResponseFrequency
CooldownMs == 1000
WindowMs == 60000

Senders == Contacts \cup {"333@g.us", "status@broadcast", "999@c.us"}

(***************************************************************************)
(* Texts.  Strings are the program's own; length, substring and the        *)
(* regular expressions of cleanResponse are tabulated for them.            *)
(***************************************************************************)
Fallback0 == "I'm sorry, I'm having trouble processing your message right now. Please try again in a moment."
Fallback1 == "I apologize, but I'm experiencing some technical difficulties. Could you please rephrase your question?"
Fallback2 == "I'm having trouble understanding that right now. Could you try asking in a different way?"
Fallback3 == "I'm sorry, I'm not able to respond properly at the moment. Please try again later."
Fallback4 == "I'm experiencing some issues right now. Please give me a moment and try again."
\* Fallback1.substring(0, 97) + '...'
Fallback1Cut == "I apologize, but I'm experiencing some technical difficulties. Could you please rephrase your que..."

\* GeminiAI.getFallbackResponse and ResponseHandler.getFallbackResponse pick
\* one text at random
GeminiFallbacks == {Fallback0, Fallback1, Fallback2, Fallback3}
HandlerFallbacks == {Fallback0, Fallback1, Fallback2, Fallback3, Fallback4}

\* String.prototype.length
StrLen(s) ==
    CASE s = Fallback0 -> 94
      [] s = Fallback1 -> 103
      [] s = Fallback2 -> 89
      [] s = Fallback3 -> 82
      [] s = Fallback4 -> 78
      [] s = Fallback1Cut -> 100
      [] s = "reply text" -> 10
      [] s = "" -> 0
      [] OTHER -> 20

\* s.substring(0, maxResponseLength - 3) + '...' for the texts longer than
\* maxResponseLength
Truncate(s) ==
    CASE s = Fallback1 -> Fallback1Cut
      [] OTHER -> s

TruncateIfLong(s) == IF StrLen(s) > maxResponseLength THEN Truncate(s) ELSE s

\* trim() and the five markup replacements of cleanResponse: none of the
\* texts of the model holds a backquote, an asterisk or a hash
StripMarkup(s) == s

\* ResponseHandler.cleanResponse: the texts it may return
cleanResponse(response) ==
    IF response = "" THEN HandlerFallbacks
    ELSE LET cleaned == TruncateIfLong(StripMarkup(response))
         IN  IF cleaned = "" \/ StrLen(cleaned) < 3 THEN HandlerFallbacks
             ELSE {cleaned}

\* what the generation capability (model.generateContent) may do
GenOutcomes == {"throw", "reply text"}

\* GeminiAI.generateResponse: the texts it may return; a failure is caught
\* there and answered with one of its own fallback texts
geminiGenerateResponse(outcome) ==
    IF outcome = "throw" THEN GeminiFallbacks
    ELSE {TruncateIfLong(outcome)}

\* ResponseHandler.generateResponse
generateResponse(outcome) ==
    UNION {cleanResponse(r) : r \in geminiGenerateResponse(outcome)}

(***************************************************************************)
(* Helpers: filters and the cooldown map                                   *)
(***************************************************************************)
isGroupMessage(from) == from = "333@g.us"

\* !message.body || message.body.trim().length === 0
IsBlank(body) == body \in {"", "   "}

CooldownKey(contactId) == <<"cooldown", contactId>>
FrequencyKey(contactId) == <<"frequency", contactId>>
CooldownKeys ==
    {CooldownKey(c) : c \in KnownContacts} \cup {FrequencyKey(c) : c \in KnownContacts}

TsEntry(t) == [kind |-> "ts", ts |-> t, list |-> <<>>]
ListEntry(l) == [kind |-> "list", ts |-> 0, list |-> l]
NoEntry == [kind |-> "none", ts |-> 0, list |-> <<>>]

\* a cooldown that is still running when exactly cooldownMs have passed
isCooldownExpiredStrict(map, key, cooldownMs, t) ==
    IF map[key].kind = "none" \/ map[key].ts = 0 THEN TRUE
    ELSE t - map[key].ts > cooldownMs

\* Helpers.isCooldownExpired
isCooldownExpired(map, key, cooldownMs, t) ==
    IF map[key].kind = "none" \/ map[key].ts = 0 THEN TRUE
    ELSE t - map[key].ts >= cooldownMs

\* Helpers.updateCooldown
updateCooldown(map, key, t) == [map EXCEPT ![key] = TsEntry(t)]

\* The cooldown map holds a number under a cooldown key and an array of
\* numbers under a frequency key.  The test now - timestamp > maxAge of
\* cleanupCooldowns (helpers.js line 163) converts an array to a number
\* through its string: the empty array gives 0, an array of one number that
\* number, a longer array NaN, and a comparison with NaN is false.
\* ToNumber of a map value
EntryNumber(entry) ==
    IF entry.kind = "ts" THEN [nan |-> FALSE, value |-> entry.ts]
    ELSE IF Len(entry.list) = 0 THEN [nan |-> FALSE, value |-> 0]
    ELSE IF Len(entry.list) = 1 THEN [nan |-> FALSE, value |-> entry.list[1]]
    ELSE [nan |-> TRUE, value |-> 0]

\* Helpers.cleanupCooldowns(cooldownMap, maxAge)
cleanupCooldowns(map, t, maxAge) ==
    [key \in CooldownKeys |->
        IF /\ map[key].kind # "none"
           /\ ~EntryNumber(map[key]).nan
           /\ t - EntryNumber(map[key]).value > maxAge
        THEN NoEntry
        ELSE map[key]]

\* a window that is closed at its old end
RecentTimestampsInclusive(map, contactId, t) ==
    SelectSeq(map[FrequencyKey(contactId)].list, LAMBDA ts : ts >= t - WindowMs)

\* checkResponseFrequency: the timestamps inside the window
RecentTimestamps(map, contactId, t) ==
    SelectSeq(map[FrequencyKey(contactId)].list, LAMBDA ts : ts > t - WindowMs)

\* a check that admits one response more than the limit
checkResponseFrequencyLax(map, contactId, t, limit) ==
    Len(RecentTimestamps(map, contactId, t)) <= limit

\* checkResponseFrequency: its return value
checkResponseFrequency(map, contactId, t, limit) ==
    Len(RecentTimestamps(map, contactId, t)) < limit

\* a check that records the time of a refused call as well
checkResponseFrequencyMapAlways(map, contactId, t, limit) ==
    [map EXCEPT ![FrequencyKey(contactId)] =
        ListEntry(Append(RecentTimestamps(map, contactId, t), t))]

\* checkResponseFrequency: the map it leaves
checkResponseFrequencyMap(map, contactId, t, limit) ==
    LET key == FrequencyKey(contactId)
        created == IF map[key].kind = "none" THEN [map EXCEPT ![key] = ListEntry(<<>>)]
                   ELSE map
    IN  IF checkResponseFrequency(map, contactId, t, limit)
        THEN [created EXCEPT ![key] = ListEntry(Append(RecentTimestamps(map, contactId, t), t))]
        ELSE created

(***************************************************************************)
(* CommandHandler                                                          *)
(***************************************************************************)
\* Helpers.isCommand: the body starts with the command prefix
isCommand(body) ==
    body \in {"/stop", "/start", "/help", "/status", "/info", "/personalities",
              "/xyz", "/", "/ "}

\* Helpers.parseCommand(body, prefix).name; null is ""
CommandName(body) ==
    CASE body = "/stop" -> "stop"
      [] body = "/start" -> "start"
      [] body = "/help" -> "help"
      [] body = "/status" -> "status"
      [] body = "/info" -> "info"
      [] body = "/personalities" -> "personalities"
      [] body = "/xyz" -> "xyz"
      [] OTHER -> ""

DefaultSettings ==
    [kind |-> "settings", responsesEnabled |-> autoResponsesEnabled,
     lastCommand |-> 0, commandCount |-> 0]

\* getUserSettings creates the entry on first use
getUserSettings(settings, contactId) ==
    IF settings[contactId].kind = "none"
    THEN [settings EXCEPT ![contactId] = DefaultSettings]
    ELSE settings

\* a setter that writes the preference of every contact
setUserSettingsAll(settings, contactId, enabled) ==
    [c \in KnownContacts |-> [DefaultSettings EXCEPT !.responsesEnabled = enabled]]

setUserSettings(settings, contactId, enabled) ==
    [getUserSettings(settings, contactId) EXCEPT ![contactId].responsesEnabled = enabled]

\* a preference check that lets every contact through
isUserResponsesEnabledAlways(settings, contactId) == TRUE

\* CommandHandler.isUserResponsesEnabled
isUserResponsesEnabled(settings, contactId) ==
    getUserSettings(settings, contactId)[contactId].responsesEnabled

\* a router that recognizes no command
processCommandSilent(settings, from, body) == ""

\* processCommand: the text it returns, "" for null
processCommand(settings, from, body) ==
    LET name == CommandName(body)
    IN  IF ~commandsEnabled \/ body = "" \/ name = "" THEN ""
        ELSE IF name \notin availableCommands THEN "Unknown command: " \o name
        ELSE CASE name = "help" -> "WhatsApp AI Bot Commands"
               [] name = "status" ->
                    IF isUserResponsesEnabled(settings, from)
                    THEN "Bot Status: Auto-responses: Enabled"
                    ELSE "Bot Status: Auto-responses: Disabled"
               [] name = "stop" -> "Auto-responses disabled"
               [] name = "start" -> "Auto-responses enabled"
               [] name = "info" ->
                    IF isUserResponsesEnabled(settings, from)
                    THEN "Bot Information: Responses: Enabled"
                    ELSE "Bot Information: Responses: Disabled"
               [] OTHER -> "Available Personalities"

\* processCommand: the user settings it leaves
processCommandSettings(settings, from, body) ==
    LET name == CommandName(body)
    IN  IF ~commandsEnabled \/ body = "" \/ name = "" \/ name \notin availableCommands
        THEN settings
        ELSE CASE name = "stop" -> setUserSettings(settings, from, FALSE)
               [] name = "start" -> setUserSettings(settings, from, TRUE)
               [] name \in {"status", "info"} -> getUserSettings(settings, from)
               [] OTHER -> settings

\* CommandHandler.cleanupOldSettings: the user settings it leaves; lastCommand
\* null is 0
cleanupOldSettings(settings, t, maxAge) ==
    [c \in KnownContacts |->
        IF /\ settings[c].kind # "none"
           /\ settings[c].lastCommand # 0
           /\ t - settings[c].lastCommand > maxAge
        THEN None ELSE settings[c]]

(***************************************************************************)
(* The state of a new MessageHandler (with its CommandHandler), no event   *)
(* received yet.                                                           *)
(***************************************************************************)
Events == 1..MaxEvents

NoTask ==
    [pc |-> "idle", from |-> "", body |-> "", fromMe |-> FALSE, stage |-> "",
     arrivedAt |-> 0, write |-> None,
     context |-> None, outcome |-> "", response |-> ""]

\* a start-up that registers the message handler and starts the client
\* before the conversation memory is initialized
InitializeOrderStartFirst == <<"registerHandler", "startClient", "initializeMemory">>

\* the steps main() runs after the constructors, in order: messageHandler
\* .initialize() (gemini.js line 262), whatsappClient.onMessage (line 273),
\* whatsappClient.start() (line 303)
InitializeOrder == <<"initializeMemory", "registerHandler", "startClient">>

\* the addMessage calls that run at once
MaxCalls == 2
CallSlots == 1..MaxCalls

\* pc "saveConversation": the call waits for the write of <id>.json;
\* pc "saveSummary": it waits for the write of <id>_summary.json
NoCall == [pc |-> "idle", cid |-> "none", write |-> None,
           detached |-> FALSE, length |-> 0]
NoCalls == [k \in CallSlots |-> NoCall]

\* no cleanupOldConversations call is running.  Of a running call: removing
\* is the id whose deleteConversation waits for its removals, left the
\* files still to remove, pending the listed ids not yet reached; listed,
\* maxAge, started (the appended counts) and quiet (no addMessage call was
\* in progress) are as the call found them when it built its list; failures
\* counts the removals of the call that were rejected, handler says that
\* MessageHandler.cleanup made the call and waits for it
NoCleanup == [active |-> FALSE, removing |-> "none", left |-> {}, pending |-> <<>>,
              listed |-> {}, maxAge |-> 0, quiet |-> FALSE, failures |-> 0,
              handler |-> FALSE, started |-> [c \in StoreIds |-> 0]]

\* boot.step is the index of the next step of InitializeOrder; files and read
\* are the listing and the progress of loadExistingConversations
NotStarted ==
    [step |-> 1, phase |-> "idle", files |-> <<>>, read |-> 0,
     handlers |-> 0, started |-> FALSE, reloaded |-> FALSE]

\* the bot after initialize() and start(): what every event handler runs in
Running ==
    [step |-> Len(InitializeOrder) + 1, phase |-> "done", files |-> <<>>, read |-> 0,
     handlers |-> 1, started |-> TRUE, reloaded |-> TRUE]

\* a ResponseHandler and its GeminiAI as their constructors leave them
\* (part_004 lines 10-14, gemini.js lines 11-15), both with the configured
\* maximum, and no generateResponse call in progress
NewResponseHandler(maxLength) ==
    [maxResponseLength |-> maxLength, geminiMaxResponseLength |-> maxLength,
     generating |-> FALSE]

PipeInit ==
    /\ responseHandler = NewResponseHandler(maxResponseLength)
    /\ boot = Running
    /\ cleanup = NoCleanup
    /\ ignoredContacts = IgnoredContacts
    /\ calls = NoCalls
    /\ overlapped = {}
    /\ cooldownMap = [k \in CooldownKeys |-> NoEntry]
    /\ userSettings = [c \in KnownContacts |-> None]
    /\ tasks = [e \in Events |-> NoTask]
    /\ nEvents = 0
    /\ sent = <<>>
    /\ admissions = <<>>
    /\ ticks = 0

(***************************************************************************)
(* The memory manager driven directly: addMessage calls that interleave   *)
(* at their awaits, with every storage write succeeding,                   *)
(* getConversationContext calls, and process restarts.                     *)
(***************************************************************************)
ContactOf(cid) == CHOOSE c \in Contacts : generateConversationId(c) = cid

\* the k-th message appended to a conversation: inbound and agent messages
\* alternate, WhatsApp timestamps are unix seconds
MemMessage(cid, k) ==
    [id |-> k,
     from |-> IF k % 2 = 1 THEN ContactOf(cid) ELSE "bot",
     body |-> CASE k % 4 = 1 -> "Hello world"
                [] k % 4 = 2 -> "reply text"
                [] k % 4 = 3 -> "the 2024 plan, hello"
                [] OTHER -> "plan 7 for 365 days",
     timestamp |-> (StartTime \div 1000) + k,
     type |-> "chat"]

\* maxMessages arguments of getConversationContext: 0 is the default (null)
MaxMessagesArgs == {0, 5, 15}

EmptyCache == [k \in StoreCacheIds |-> None]
EmptyStore == [c \in StoreIds |-> None]

\* the memory after n addMessage calls for one conversation, each run to its
\* end before the next: what a process finds that starts with this history.
\* The calls from summarizationThreshold on summarize at every
\* (summarizationThreshold - maxContextMessages)-th message; the call that
\* summarized has written the list it then trimmed.
PriorMemory(cid, n) ==
    LET all == [k \in 1..n |-> StoredMessage(MemMessage(cid, k), StartTime)]
        since == IF n < summarizationThreshold THEN n
                 ELSE (n - summarizationThreshold)
                          % (summarizationThreshold - maxContextMessages)
        summarizedAt == n - since
        listThen == SubSeq(all, summarizedAt - summarizationThreshold + 1, summarizedAt)
        retained == IF n < summarizationThreshold THEN all
                    ELSE SubSeq(all, n - maxContextMessages - since + 1, n)
        record(messages) ==
            [NewConversation(cid, StartTime) EXCEPT !.messages = messages]
        summary == [EmptyStore EXCEPT ![cid] = BuildSummary(cid, listThen, StartTime)]
    IN  IF n = 0
        THEN [conversations |-> EmptyCache, summaries |-> EmptyStore,
              diskConv |-> EmptyStore, diskSum |-> EmptyStore]
        ELSE [conversations |-> [EmptyCache EXCEPT ![cid] = record(retained)],
              summaries |-> IF n < summarizationThreshold THEN EmptyStore ELSE summary,
              diskConv |-> [EmptyStore EXCEPT ![cid] =
                               record(IF n >= summarizationThreshold /\ since = 0
                                      THEN listThen ELSE retained)],
              diskSum |-> IF n < summarizationThreshold THEN EmptyStore ELSE summary]

PriorConversation == generateConversationId("111@c.us")

\* earlier messages of contact 111: none, two short of the summarization
\* threshold, and two short of a retained list of 15 and of 20 messages
MemPriorCounts == {0, 18, 23, 28}

\* a ConversationMemory that holds the earlier messages of one contact
MemInit ==
    /\ now = StartTime
    /\ \E n \in MemPriorCounts :
           LET prior == PriorMemory(PriorConversation, n)
           IN  /\ conversations = prior.conversations
               /\ summaries = prior.summaries
               /\ diskConv = prior.diskConv
               /\ diskSum = prior.diskSum
               /\ appended = [c \in StoreIds |->
                                 IF c = PriorConversation THEN n ELSE 0]
    /\ lastContext = None
    /\ restarts = 0
    /\ lastOp = [op |-> "init"]
    /\ PipeInit
    /\ responseFrequencyLimit = MaxFrequencyLimit

FreeSlots == {k \in CallSlots : calls[k].pc = "idle"}

\* the calls in progress on a conversation
CallsOn(cid) == {k \in CallSlots : calls[k].pc # "idle" /\ calls[k].cid = cid}

\* addMessage(cid, message) up to its first await, lines 424-447: the
\* message is pushed and saveConversation has serialized the record
AddMessageCall(cid) ==
    /\ FreeSlots # {}
    /\ LET k == CHOOSE f \in FreeSlots : \A g \in FreeSlots : f <= g
           pushed == addMessagePush(conversations, cid,
                                    MemMessage(cid, appended[cid] + 1), now)
       IN  /\ conversations' = pushed
           /\ calls' = [calls EXCEPT ![k] =
                  [NoCall EXCEPT !.pc = "saveConversation", !.cid = cid,
                                 !.write = pushed[cid]]]
    /\ overlapped' = IF CallsOn(cid) # {} THEN overlapped \cup {cid} ELSE overlapped
    /\ appended' = [appended EXCEPT ![cid] = @ + 1]
    /\ lastContext' = None

\* nEvents counts the calls
MemAddMessage(cid) ==
    /\ nEvents < MaxAppends
    /\ nEvents' = nEvents + 1
    /\ AddMessageCall(cid)
    /\ lastOp' = [op |-> "addMessageCall", cid |-> cid]
    /\ UNCHANGED <<now, summaries, diskConv, diskSum, restarts, cooldownMap,
                   userSettings, responseFrequencyLimit, tasks, sent,
                   admissions, ticks, boot, cleanup, ignoredContacts,
                   responseHandler>>

\* line 450 on the conversation object the call holds, then the guard of
\* summarizeConversation on the object the cache holds (line 496); the two
\* are one object unless deleteConversation has dropped the first
summarizeDue(call) ==
    /\ call.detached => call.length >= summarizationThreshold
    /\ summarizeApplies(conversations, call.cid)

\* the write of <id>.json is done: addMessage goes on to its summarization
\* check (lines 450-452) and returns unless saveSummary is awaited
MemWriteDone(k) ==
    /\ calls[k].pc = "saveConversation"
    /\ LET cid == calls[k].cid
           due == summarizeDue(calls[k])
       IN  /\ diskConv' = [diskConv EXCEPT ![cid] = calls[k].write]
           /\ conversations' = IF due THEN summarizeConversations(conversations, cid)
                                ELSE conversations
           /\ summaries' = IF due THEN summarizeSummaries(conversations, summaries, cid, now)
                            ELSE summaries
           /\ calls' = IF due
                       THEN [calls EXCEPT ![k].pc = "saveSummary",
                                          ![k].write = summaries'[cid]]
                       ELSE [calls EXCEPT ![k] = NoCall]
           /\ lastOp' = IF due THEN [op |-> "summarize", cid |-> cid]
                        ELSE [op |-> "addMessage", cid |-> cid, summarized |-> FALSE]
    /\ lastContext' = None
    /\ UNCHANGED <<now, diskSum, appended, restarts, cooldownMap, userSettings,
                   responseFrequencyLimit, tasks, nEvents, sent, admissions, ticks,
                   boot, cleanup, ignoredContacts, overlapped,
                   responseHandler>>

\* the write of <id>_summary.json is done: summarizeConversation and
\* addMessage return
MemSummaryWriteDone(k) ==
    /\ calls[k].pc = "saveSummary"
    /\ diskSum' = [diskSum EXCEPT ![calls[k].cid] = calls[k].write]
    /\ calls' = [calls EXCEPT ![k] = NoCall]
    /\ lastOp' = [op |-> "addMessage", cid |-> calls[k].cid, summarized |-> TRUE]
    /\ lastContext' = None
    /\ UNCHANGED <<now, conversations, summaries, diskConv, appended, restarts,
                   cooldownMap, userSettings, responseFrequencyLimit, tasks,
                   nEvents, sent, admissions, ticks, boot, cleanup,
                   ignoredContacts, overlapped, responseHandler>>

\* getConversationContext(cid, maxMessages), lines 472-487
MemGetContext(cid, maxMessages) ==
    /\ conversations' = getContextLeaves(conversations, cid, maxMessages)
    /\ lastContext' = [kind |-> "context", cid |-> cid, maxMessages |-> maxMessages,
                       result |-> getConversationContext(conversations, summaries,
                                                         cid, maxMessages)]
    /\ lastOp' = [op |-> "getContext", cid |-> cid]
    /\ UNCHANGED <<now, summaries, diskConv, diskSum, appended, restarts, pipeVars>>

\* a new process: a fresh ConversationMemory and initialize(), lines 368-417
MemRestart ==
    /\ restarts < MaxRestarts
    /\ conversations' = loadConversations(diskConv, diskSum)
    /\ summaries' = loadSummaries(diskConv, diskSum)
    /\ restarts' = restarts + 1
    /\ lastContext' = None
    /\ lastOp' = [op |-> "restart"]
    /\ calls' = NoCalls
    /\ overlapped' = overlapped \cup {c \in ConvIds : CallsOn(c) # {}}
    /\ UNCHANGED <<now, diskConv, diskSum, appended, cooldownMap, userSettings,
                   responseFrequencyLimit, tasks, nEvents, sent, admissions, ticks,
                   boot, cleanup, ignoredContacts, responseHandler>>

MemNext ==
    \/ \E cid \in ConvIds : MemAddMessage(cid)
    \/ \E k \in CallSlots : MemWriteDone(k)
    \/ \E k \in CallSlots : MemSummaryWriteDone(k)
    \/ \E cid \in ConvIds, mm \in MaxMessagesArgs : MemGetContext(cid, mm)
    \/ MemRestart

SpecMemory == MemInit /\ [][MemNext]_vars

(***************************************************************************)
(* The dispatch pipeline.  The 'message' listener of WhatsAppClient is an  *)
(* async function that the event emitter does not await, so the handling   *)
(* of an event runs until its next await of real I/O and the handlings of  *)
(* several events interleave at these awaits:                              *)
(*   saveInbound, saveInboundSummary   the writes of addMessage(inbound)   *)
(*   sendCommand                       the send of a command reply         *)
(*   generating                        getContactInfo and generateContent  *)
(*   saveBot, saveBotSummary           the writes of addMessage(agent)     *)
(*   sendResponse                      the send of the generated reply     *)
(***************************************************************************)
\* the bodies of the events: a text, commands, an unknown command, the
\* prefix alone and the prefix with a blank (bodies that isCommand accepts
\* and processCommand does not answer), an empty body and a blank one
Bodies == {"Hello world", "/stop", "/start", "/xyz", "/", "/ ", "", "   "}

Message(from, body, fromMe) == [from |-> from, body |-> body, fromMe |-> fromMe]

\* the inbound events: every body from each contact, and one message of the
\* agent's own, of a group, of the status broadcast and of an ignored contact
InboundMessages ==
    {Message(c, b, FALSE) : c \in Contacts, b \in Bodies}
        \cup {Message("111@c.us", "Hello world", TRUE)}
        \cup {Message(s, "Hello world", FALSE) : s \in Senders \ Contacts}

InFlight == {e \in Events : tasks[e].pc \notin {"idle", "rejected", "done"}}

ConvOf(e) == generateConversationId(tasks[e].from)

\* a filter chain without the empty-body stage
FilterStageNoEmptyCheck(from, body, fromMe, map, t) ==
    IF fromMe THEN "fromMe"
    ELSE IF isGroupMessage(from) /\ ignoreGroups THEN "group"
    ELSE IF from \in ignoredContacts THEN "ignored"
    ELSE IF from = "status@broadcast" THEN "status"
    ELSE IF ~isCooldownExpired(map, CooldownKey(from), CooldownMs, t) THEN "cooldown"
    ELSE "pass"

\* the filters of WhatsAppClient.handleIncomingMessage (fromMe, group) and of
\* MessageHandler.handleMessage, in order: the stage that rejects, or "pass"
FilterStage(from, body, fromMe, map, t) ==
    IF fromMe THEN "fromMe"
    ELSE IF isGroupMessage(from) /\ ignoreGroups THEN "group"
    ELSE IF from \in ignoredContacts THEN "ignored"
    ELSE IF from = "status@broadcast" THEN "status"
    ELSE IF IsBlank(body) THEN "empty"
    ELSE IF ~isCooldownExpired(map, CooldownKey(from), CooldownMs, t) THEN "cooldown"
    ELSE "pass"

InboundMessage(e, from, body, t) ==
    [id |-> e, from |-> from, body |-> body, timestamp |-> t \div 1000, type |-> "chat"]

\* generateAIResponse, lines 184-190: the id `bot_${Date.now()}` is -Date.now()
BotMessage(text, t) ==
    [id |-> 0 - t, from |-> "bot", body |-> text, timestamp |-> t \div 1000, type |-> "text"]

\* a handler that routes first and records only what is not a command
recordInboundUnlessCommand(convs, cid, message, t) ==
    IF isCommand(message.body) THEN convs ELSE addMessagePush(convs, cid, message, t)

\* handleMessage lines 110-111: memory.addMessage(conversationId, message)
\* for every event that has passed the filters, before processCommand
recordInbound(convs, cid, message, t) == addMessagePush(convs, cid, message, t)

\* An inbound event: the filters, and for an event that passes them
\* addMessage up to the write of the conversation record.
Receive(m) ==
    LET stage == FilterStage(m.from, m.body, m.fromMe, cooldownMap, now)
        e == nEvents + 1
        cid == generateConversationId(m.from)
        arrived == [NoTask EXCEPT !.from = m.from, !.body = m.body,
                                  !.fromMe = m.fromMe, !.stage = stage,
                                  !.arrivedAt = now]
    IN  /\ nEvents < MaxEvents
        /\ nEvents' = e
        /\ lastOp' = [op |-> "step"]
        /\ IF stage # "pass"
           THEN /\ tasks' = [tasks EXCEPT ![e] = [arrived EXCEPT !.pc = "rejected"]]
                /\ UNCHANGED <<conversations, appended>>
           ELSE /\ Cardinality(InFlight) < MaxInFlight
                /\ conversations' =
                       recordInbound(conversations, cid,
                                     InboundMessage(e, m.from, m.body, now), now)
                /\ appended' = [appended EXCEPT ![cid] = @ + 1]
                /\ tasks' = [tasks EXCEPT ![e] =
                       [arrived EXCEPT !.pc = "saveInbound",
                                       !.write = conversations'[cid]]]
        /\ UNCHANGED <<now, summaries, diskConv, diskSum, lastContext, restarts,
                       cooldownMap, userSettings, responseFrequencyLimit,
                       sent, admissions, ticks, boot, cleanup, ignoredContacts, calls, overlapped,
                       responseHandler>>

\* a sendResponse that sends the text to another contact as well
sendResponseTwice(sendCalls, e, contactId, response, t, kind) ==
    LET other == CHOOSE c \in Contacts : c # contactId
    IN  sendCalls \o <<[event |-> e, to |-> contactId, text |-> response,
                    at |-> t, kind |-> kind],
                   [event |-> e, to |-> other, text |-> response,
                    at |-> t, kind |-> kind]>>

\* sendResponse(contactId, response), messageHandler.js lines 210-236: one
\* call of the send callback, for contactId
sendResponse(sendCalls, e, contactId, response, t, kind) ==
    Append(sendCalls, [event |-> e, to |-> contactId, text |-> response,
                   at |-> t, kind |-> kind])

\* handleMessage lines 114-141 and generateAIResponse up to the generation
\* call: command routing, preference check, frequency check, context
Route(e) ==
    LET from == tasks[e].from
        body == tasks[e].body
        reply == processCommand(userSettings, from, body)
        routed == processCommandSettings(userSettings, from, body)
        checked == getUserSettings(routed, from)
    IN  IF reply # ""
        THEN /\ userSettings' = routed
             /\ sent' = sendResponse(sent, e, from, reply, now, "command")
             /\ tasks' = [tasks EXCEPT ![e].pc = "sendCommand", ![e].write = None,
                                       ![e].response = reply]
             /\ UNCHANGED <<cooldownMap, admissions>>
        ELSE IF ~isUserResponsesEnabled(routed, from)
        THEN /\ userSettings' = checked
             /\ tasks' = [tasks EXCEPT ![e].pc = "done", ![e].write = None]
             /\ UNCHANGED <<cooldownMap, sent, admissions>>
        ELSE /\ userSettings' = checked
             /\ cooldownMap' = checkResponseFrequencyMap(cooldownMap, from, now,
                                                         responseFrequencyLimit)
             /\ UNCHANGED sent
             /\ IF checkResponseFrequency(cooldownMap, from, now, responseFrequencyLimit)
                THEN /\ admissions' = Append(admissions,
                                             [event |-> e, contact |-> from, at |-> now])
                     /\ tasks' = [tasks EXCEPT
                            ![e].pc = "generating", ![e].write = None,
                            ![e].context = getConversationContext(
                                               conversations', summaries', ConvOf(e), 0)]
                ELSE /\ tasks' = [tasks EXCEPT ![e].pc = "done", ![e].write = None]
                     /\ UNCHANGED admissions

\* handleMessage lines 142-144: the generated response goes to sendResponse
SendGenerated(e) ==
    /\ sent' = sendResponse(sent, e, tasks[e].from, tasks[e].response, now,
                            "generated")
    /\ tasks' = [tasks EXCEPT ![e].pc = "sendResponse", ![e].write = None]
    /\ UNCHANGED <<cooldownMap, userSettings, admissions>>

\* the write of saveConversation completes; addMessage goes on to its
\* summarization check (lines 450-452), and the pipeline goes on unless
\* saveSummary is awaited
WriteDone(e) ==
    /\ tasks[e].pc \in {"saveInbound", "saveBot"}
    /\ diskConv' = [diskConv EXCEPT ![ConvOf(e)] = tasks[e].write]
    /\ conversations' = summarizeConversations(conversations, ConvOf(e))
    /\ summaries' = summarizeSummaries(conversations, summaries, ConvOf(e), now)
    /\ IF summarizeApplies(conversations, ConvOf(e))
       THEN /\ tasks' = [tasks EXCEPT
                   ![e].pc = IF tasks[e].pc = "saveInbound"
                             THEN "saveInboundSummary" ELSE "saveBotSummary",
                   ![e].write = summaries'[ConvOf(e)]]
            /\ UNCHANGED <<cooldownMap, userSettings, sent, admissions>>
       ELSE IF tasks[e].pc = "saveInbound" THEN Route(e) ELSE SendGenerated(e)
    /\ lastOp' = [op |-> "step"]
    /\ UNCHANGED <<now, diskSum, appended, lastContext, restarts,
                   responseFrequencyLimit, nEvents, ticks, boot, cleanup, ignoredContacts, calls, overlapped,
                   responseHandler>>

\* the write of saveSummary completes
SummaryWriteDone(e) ==
    /\ tasks[e].pc \in {"saveInboundSummary", "saveBotSummary"}
    /\ diskSum' = [diskSum EXCEPT ![ConvOf(e)] = tasks[e].write]
    /\ UNCHANGED <<conversations, summaries>>
    /\ IF tasks[e].pc = "saveInboundSummary" THEN Route(e) ELSE SendGenerated(e)
    /\ lastOp' = [op |-> "step"]
    /\ UNCHANGED <<now, diskConv, appended, lastContext, restarts,
                   responseFrequencyLimit, nEvents, ticks, boot, cleanup, ignoredContacts, calls, overlapped,
                   responseHandler>>

\* the texts a generated response can be
ResponseTexts == UNION {generateResponse(o) : o \in GenOutcomes}

\* a context that is a view of the cache: the list and the summary of the
\* conversation as they are when the call looks at them
contextHeldLive(context, convs, sums, cid) ==
    getConversationContext(convs, sums, cid, 0)

\* the context a pending generation call holds: getConversationContext
\* copied the list with slice (part_002 line 479), and a summary object is
\* replaced, never written to, by a later summarization (line 515)
contextHeld(context, convs, sums, cid) == context

\* the generation call returns or throws: generateResponse yields the text,
\* generateAIResponse appends it as the agent's message (lines 183-192);
\* lastContext is the context the call held to its end
GenerationDone(e, outcome, text) ==
    /\ tasks[e].pc = "generating"
    /\ text \in generateResponse(outcome)
    /\ lastContext' = [kind |-> "context", cid |-> ConvOf(e), maxMessages |-> 0,
                       result |-> contextHeld(tasks[e].context, conversations,
                                              summaries, ConvOf(e))]
    /\ conversations' = addMessagePush(conversations, ConvOf(e), BotMessage(text, now), now)
    /\ appended' = [appended EXCEPT ![ConvOf(e)] = @ + 1]
    /\ tasks' = [tasks EXCEPT ![e].pc = "saveBot", ![e].context = None,
                              ![e].outcome = outcome, ![e].response = text,
                              ![e].write = conversations'[ConvOf(e)]]
    /\ lastOp' = [op |-> "step"]
    /\ UNCHANGED <<now, summaries, diskConv, diskSum, restarts,
                   cooldownMap, userSettings, responseFrequencyLimit, nEvents,
                   sent, admissions, ticks, boot, cleanup, ignoredContacts, calls, overlapped,
                   responseHandler>>

\* the send returns (or fails: sendResponse catches and logs); handleMessage
\* records the short cooldown (lines 119, 145)
SendDone(e) ==
    /\ tasks[e].pc \in {"sendCommand", "sendResponse"}
    /\ cooldownMap' = updateCooldown(cooldownMap, CooldownKey(tasks[e].from), now)
    /\ tasks' = [tasks EXCEPT ![e].pc = "done"]
    /\ lastOp' = [op |-> "step"]
    /\ UNCHANGED <<now, memVars, appended, lastContext, restarts, userSettings,
                   responseFrequencyLimit, nEvents, sent, admissions, ticks, boot, cleanup, ignoredContacts, calls, overlapped,
                   responseHandler>>

\* the clock advances by the short cooldown or by the frequency window
TickSteps == {CooldownMs, WindowMs}

Tick(d) ==
    /\ ticks < MaxTicks
    /\ now' = now + d
    /\ ticks' = ticks + 1
    /\ lastOp' = [op |-> "step"]
    /\ UNCHANGED <<memVars, appended, lastContext, restarts, cooldownMap,
                   userSettings, responseFrequencyLimit, tasks, nEvents, sent,
                   admissions, boot, cleanup, ignoredContacts, calls, overlapped,
                   responseHandler>>

\* a MessageHandler that starts with PriorMessages earlier messages of one
\* contact in memory and no event received yet
Init ==
    /\ now = StartTime
    /\ conversations = PriorMemory(PriorConversation, PriorMessages).conversations
    /\ summaries = PriorMemory(PriorConversation, PriorMessages).summaries
    /\ diskConv = PriorMemory(PriorConversation, PriorMessages).diskConv
    /\ diskSum = PriorMemory(PriorConversation, PriorMessages).diskSum
    /\ appended = [c \in StoreIds |-> IF c = PriorConversation THEN PriorMessages ELSE 0]
    /\ lastContext = None
    /\ restarts = 0
    /\ lastOp = [op |-> "init"]
    /\ PipeInit
    /\ responseFrequencyLimit \in 1..MaxFrequencyLimit

Next ==
    \/ \E m \in InboundMessages : Receive(m)
    \/ \E e \in Events : WriteDone(e)
    \/ \E e \in Events : SummaryWriteDone(e)
    \/ \E e \in Events, outcome \in GenOutcomes, text \in ResponseTexts :
            GenerationDone(e, outcome, text)
    \/ \E e \in Events : SendDone(e)
    \/ \E d \in TickSteps : Tick(d)

Spec == Init /\ [][Next]_vars

(***************************************************************************)
(* checkResponseFrequency driven directly: calls for the contacts at the   *)
(* limit FrequencyLimit, and a clock that advances between them.  nEvents  *)
(* counts the calls and admissions logs the calls that returned true.      *)
(***************************************************************************)
FreqInit ==
    /\ now = StartTime
    /\ conversations = EmptyCache
    /\ summaries = EmptyStore
    /\ diskConv = EmptyStore
    /\ diskSum = EmptyStore
    /\ appended = [c \in StoreIds |-> 0]
    /\ lastContext = None
    /\ restarts = 0
    /\ lastOp = [op |-> "init"]
    /\ PipeInit
    /\ responseFrequencyLimit = FrequencyLimit

\* checkResponseFrequency(contactId), lines 280-305
FreqCheck(contactId) ==
    /\ nEvents < MaxChecks
    /\ nEvents' = nEvents + 1
    /\ cooldownMap' = checkResponseFrequencyMap(cooldownMap, contactId, now,
                                                responseFrequencyLimit)
    /\ admissions' =
           IF checkResponseFrequency(cooldownMap, contactId, now, responseFrequencyLimit)
           THEN Append(admissions, [event |-> nEvents', contact |-> contactId, at |-> now])
           ELSE admissions
    /\ lastOp' = [op |-> "checkFrequency", contact |-> contactId,
                  result |-> checkResponseFrequency(cooldownMap, contactId, now,
                                                    responseFrequencyLimit)]
    /\ UNCHANGED <<now, memVars, appended, lastContext, restarts, userSettings,
                   responseFrequencyLimit, tasks, sent, ticks, boot, cleanup, ignoredContacts, calls, overlapped,
                   responseHandler>>

FreqTick(d) ==
    /\ ticks < MaxFrequencyTicks
    /\ now' = now + d
    /\ ticks' = ticks + 1
    /\ lastOp' = [op |-> "step"]
    /\ UNCHANGED <<memVars, appended, lastContext, restarts, cooldownMap,
                   userSettings, responseFrequencyLimit, tasks, nEvents, sent,
                   admissions, boot, cleanup, ignoredContacts, calls, overlapped,
                   responseHandler>>

FreqNext ==
    \/ \E c \in Contacts : FreqCheck(c)
    \/ \E d \in TickSteps : FreqTick(d)

SpecFrequency == FreqInit /\ [][FreqNext]_vars


(***************************************************************************)
(* Claims about ConversationMemory, checked under SpecMemory.              *)
(***************************************************************************)

\* the addMessage calls of a conversation have run one after the other, each
\* started after the one before had returned, and all have returned
Settled(cid) == CallsOn(cid) = {} /\ cid \notin overlapped

\* C1 as stated: once N >= summarizationThreshold messages were appended to a
\* conversation, one call after the other, and the Nth call has returned,
\* the retained list has length <= maxContextMessages and one Summary exists
\* whose messageCount is the number of messages evicted (appended minus
\* retained).
C1_RetainedAtMostContext ==
    \A cid \in ConvIds :
        (restarts = 0 /\ Settled(cid)
           /\ lastOp.op = "addMessage" /\ lastOp.cid = cid
           /\ appended[cid] >= summarizationThreshold) =>
            /\ Len(conversations[cid].messages) <= maxContextMessages
            /\ summaries[cid].kind = "summary"
            /\ summaries[cid].messageCount =
                   appended[cid] - Len(conversations[cid].messages)

\* C1 amended: within one process run, after the Nth append (N >= threshold)
\* of a sequence of appends has returned, the retained list holds at least maxContextMessages and fewer than
\* summarizationThreshold messages (it grows by one per append and falls back
\* to maxContextMessages at each summarization), and exactly one Summary
\* exists, in memory and on disk, whose messageCount is the number of messages
\* the latest summarization evicted: threshold - maxContextMessages.
C1_RetainedBelowThreshold ==
    \A cid \in ConvIds :
        (restarts = 0 /\ Settled(cid)
           /\ appended[cid] >= summarizationThreshold) =>
            /\ Len(conversations[cid].messages) =
                   maxContextMessages
                   + ((appended[cid] - summarizationThreshold)
                          % (summarizationThreshold - maxContextMessages))
            /\ Len(conversations[cid].messages) < summarizationThreshold
            /\ summaries[cid].kind = "summary"
            /\ summaries[cid].conversationId = cid
            /\ summaries[cid].messageCount = summarizationThreshold - maxContextMessages
            /\ diskSum[cid] = summaries[cid]

\* the second summarization of a conversation has just happened
C1_Witness ==
    \E cid \in ConvIds :
        /\ restarts = 0
        /\ Settled(cid)
        /\ appended[cid] = 2 * summarizationThreshold - maxContextMessages
        /\ lastOp.op = "addMessage" /\ lastOp.cid = cid /\ lastOp.summarized

\* C9: a getConversationContext call changes neither the cache, the summaries
\* nor the persisted records, it does not change what any later call returns,
\* and a second call with the same arguments returns what it returned
\* (messages, summary and totalMessages).
C9_GetContextIdempotent ==
    [][lastOp'.op = "getContext" =>
          /\ UNCHANGED memVars
          /\ \A cid \in ConvIds, mm \in MaxMessagesArgs :
                getConversationContext(conversations', summaries', cid, mm)
                    = getConversationContext(conversations, summaries, cid, mm)
          /\ lastContext'.result =
                getConversationContext(conversations', summaries',
                                       lastContext'.cid, lastContext'.maxMessages)
      ]_vars

\* a call returned 15 messages and a summary
C9_Witness ==
    /\ lastOp.op = "getContext"
    /\ lastContext.kind = "context"
    /\ lastContext.maxMessages = 15
    /\ Len(lastContext.result.messages) = 15
    /\ lastContext.result.summary.kind = "summary"
    /\ lastContext.result.totalMessages = 15

\* C10 as stated: in every state reached by successful appends that ran one
\* after the other and have returned, a restart
\* (reload from storage) followed by getConversationContext returns the
\* message list getConversationContext returns now.
C10_RoundTrip ==
    \A cid \in ConvIds, mm \in MaxMessagesArgs :
        Settled(cid) =>
            getConversationContext(loadConversations(diskConv, diskSum),
                                   loadSummaries(diskConv, diskSum), cid, mm).messages
                = getConversationContext(conversations, summaries, cid, mm).messages

(***************************************************************************)
(* Claims about the dispatch pipeline, checked under Spec, and about       *)
(* checkResponseFrequency, checked under SpecFrequency.                    *)
(***************************************************************************)
SendsOf(e) == {i \in DOMAIN sent : sent[i].event = e}
Admitted(e) == \E i \in DOMAIN admissions : admissions[i].event = e

\* C2 as stated: once a contact's /stop has passed the filters, a later
\* non-command message of that contact (no /start of the contact in between)
\* causes no generation call and no send.
C2_StopSilences ==
    \A e1 \in Events, e2 \in Events :
        (/\ e1 < e2
         /\ tasks[e1].pc \notin {"idle", "rejected"}
         /\ tasks[e1].body = "/stop"
         /\ tasks[e2].from = tasks[e1].from
         /\ tasks[e2].pc # "idle"
         /\ ~isCommand(tasks[e2].body)
         /\ \A e \in Events :
               (e1 < e /\ e < e2 /\ tasks[e].from = tasks[e1].from)
                   => tasks[e].body # "/start")
            => (~Admitted(e2) /\ SendsOf(e2) = {})

\* C3: an event that is self-originated, of a group, of an ignored contact, of
\* the status broadcast, with an empty or whitespace body, or that arrives
\* before the short cooldown of its contact has expired, changes neither the
\* conversation memory, the persisted records, the user preferences nor the
\* cooldown/frequency map, starts no generation and sends nothing; it is
\* dropped at its arrival and no other event's processing is affected.
C3_RejectedHasNoEffect ==
    [][nEvents' = nEvents + 1 =>
          LET m == tasks'[nEvents']
              inCooldown ==
                  /\ m.from \in Contacts
                  /\ cooldownMap[<<"cooldown", m.from>>].kind = "ts"
                  /\ cooldownMap[<<"cooldown", m.from>>].ts # 0
                  /\ now - cooldownMap[<<"cooldown", m.from>>].ts < 1000
          IN  (\/ m.fromMe
               \/ m.from = "333@g.us"
               \/ m.from \in ignoredContacts
               \/ m.from = "status@broadcast"
               \/ m.body \in {"", "   "}
               \/ inCooldown)
                  => /\ UNCHANGED <<memVars, appended, userSettings, cooldownMap,
                                    sent, admissions>>
                     /\ m.pc = "rejected"
                     /\ \A e \in Events \ {nEvents'} : tasks'[e] = tasks[e]
      ]_vars

\* an event was dropped by the short cooldown after a response to its contact
C3_Witness ==
    /\ sent # <<>>
    /\ \E e \in Events : tasks[e].pc = "rejected" /\ tasks[e].stage = "cooldown"

\* C4 as stated: when the generation capability throws for an event that
\* reached generation, exactly one text is sent to the contact, it is one of
\* the fixed fallback texts, and the same text is in the contact's
\* conversation as a message of the agent.
C4_ThrowSendsFallback ==
    \A e \in Events :
        (tasks[e].outcome = "throw" /\ tasks[e].pc \in {"sendResponse", "done"}) =>
            /\ Cardinality(SendsOf(e)) = 1
            /\ \A i \in SendsOf(e) :
                  /\ sent[i].to = tasks[e].from
                  /\ sent[i].text \in HandlerFallbacks \cup GeminiFallbacks
                  /\ \E k \in DOMAIN conversations[ConvOf(e)].messages :
                        /\ conversations[ConvOf(e)].messages[k].from = "bot"
                        /\ conversations[ConvOf(e)].messages[k].body = sent[i].text

\* the calls for one contact that returned true and lie inside the window
\* that ends now
AdmittedInWindow(contactId) ==
    {i \in DOMAIN admissions :
        admissions[i].contact = contactId /\ admissions[i].at > now - 60000}

\* C5: a call of checkResponseFrequency for a contact returns true when fewer
\* than limit earlier calls for the contact that returned true lie inside the
\* 60000 ms window, and false when limit of them do: with limit 3 the first
\* three calls in a window return true, the 4th returns false, and a call
\* made once the timestamps have left the window returns true again.
C5_FourthCallRefused ==
    lastOp.op = "checkFrequency" =>
        IF lastOp.result
        THEN Cardinality(AdmittedInWindow(lastOp.contact)) <= responseFrequencyLimit
        ELSE Cardinality(AdmittedInWindow(lastOp.contact)) >= responseFrequencyLimit

\* limit calls for a contact returned true, the next one false, and a call
\* made after the window has passed returned true
C5_Witness ==
    /\ lastOp.op = "checkFrequency" /\ lastOp.result
    /\ Len(admissions) = responseFrequencyLimit + 1
    /\ \A i \in DOMAIN admissions : admissions[i].contact = lastOp.contact
    /\ nEvents = responseFrequencyLimit + 2
    /\ Cardinality(AdmittedInWindow(lastOp.contact)) = 1

\* C6 as stated: in any interval of the length of the frequency window, the
\* number of generated responses sent to one contact is at most the
\* response-frequency limit.
C6_SendsWithinLimit ==
    \A i \in DOMAIN sent :
        sent[i].kind = "generated" =>
            Cardinality({j \in DOMAIN sent :
                            /\ sent[j].kind = "generated"
                            /\ sent[j].to = sent[i].to
                            /\ sent[j].at >= sent[i].at
                            /\ sent[j].at < sent[i].at + WindowMs})
                <= responseFrequencyLimit

\* C6 amended: in any interval of the length of the frequency window, the
\* number of events of one contact that pass the frequency check (and so
\* start a generation call) is at most the response-frequency limit; the
\* limit bounds the times of the checks, not the times of the sends.
C6_AdmissionsWithinLimit ==
    \A i \in DOMAIN admissions :
        Cardinality({j \in DOMAIN admissions :
                        /\ admissions[j].contact = admissions[i].contact
                        /\ admissions[j].at >= admissions[i].at
                        /\ admissions[j].at < admissions[i].at + WindowMs})
            <= responseFrequencyLimit

\* two events of one contact passed the frequency check, a window apart, and
\* both were answered
C6_Witness ==
    /\ Len(admissions) = 2
    /\ admissions[1].contact = admissions[2].contact
    /\ Cardinality({i \in DOMAIN sent : sent[i].kind = "generated"}) = 2

\* C7 as stated: two responses to the same contact, command replies or
\* generated replies, are never sent less than the short cooldown apart.
C7_CooldownBetweenSends ==
    \A i \in DOMAIN sent, j \in DOMAIN sent :
        (i < j /\ sent[i].to = sent[j].to) => sent[j].at - sent[i].at >= CooldownMs

\* C8 as stated: events are processed one at a time: while the processing of
\* an event is between its first and its last step, no step is made for
\* another event.
C8_OneEventAtATime == Cardinality(InFlight) <= 1

(***************************************************************************)
(* Further claims about ConversationMemory, checked under SpecMemory.      *)
(***************************************************************************)

\* C11 as stated: when an addMessage of a conversation has returned (the
\* calls running one after the other), the totalMessages value
\* getConversationContext returns for it is the number of messages ever
\* appended to it, the summarized ones included.
C11_TotalMessagesHistoric ==
    \A cid \in ConvIds :
        (lastOp.op = "addMessage" /\ lastOp.cid = cid /\ Settled(cid)) =>
            getConversationContext(conversations, summaries, cid, 0).totalMessages
                = appended[cid]

(***************************************************************************)
(* Further claims about the dispatch pipeline, checked under Spec.         *)
(***************************************************************************)

\* C12: for an event that passed the filters and for which the command
\* router returned a text (every body that starts with the prefix and names
\* a command), the pipeline sends exactly that text to the sender and
\* nothing else, calls no generation, records no frequency timestamp (the
\* frequency list of a contact holds only the times of its generation
\* admissions), and records the short cooldown once the send has returned.
C12_CommandReplyStops ==
    \A e \in Events :
        (/\ tasks[e].stage = "pass"
         /\ tasks[e].body \in {"/stop", "/start", "/xyz"}
         /\ tasks[e].pc \in {"sendCommand", "done"}) =>
            /\ Cardinality(SendsOf(e)) = 1
            /\ \A i \in SendsOf(e) :
                  /\ sent[i].to = tasks[e].from
                  /\ sent[i].text = (CASE tasks[e].body = "/stop" -> "Auto-responses disabled"
                                       [] tasks[e].body = "/start" -> "Auto-responses enabled"
                                       [] OTHER -> "Unknown command: xyz")
                  /\ tasks[e].pc = "done" =>
                        /\ cooldownMap[<<"cooldown", tasks[e].from>>].kind = "ts"
                        /\ cooldownMap[<<"cooldown", tasks[e].from>>].ts >= sent[i].at
            /\ ~Admitted(e)
            /\ tasks[e].outcome = ""
            /\ LET list == cooldownMap[<<"frequency", tasks[e].from>>].list
               IN  \A k \in DOMAIN list :
                      \E j \in DOMAIN admissions :
                          /\ admissions[j].contact = tasks[e].from
                          /\ admissions[j].at = list[k]

\* a /stop and an unknown command were answered and their processing ended
C12_Witness ==
    /\ \E e \in Events : tasks[e].pc = "done" /\ tasks[e].body = "/stop"
                            /\ SendsOf(e) # {}
    /\ \E e \in Events : tasks[e].pc = "done" /\ tasks[e].body = "/xyz"
                            /\ SendsOf(e) # {}

(***************************************************************************)
(* The CommandHandler driven directly: processCommand for every kind of    *)
(* body, isUserResponsesEnabled, the maintenance cleanup, and a clock      *)
(* that passes the cleanup age.  nEvents counts the calls.                 *)
(***************************************************************************)
\* cleanupOldSettings: the default maxAge, 7 * 24 * 60 * 60 * 1000
SevenDays == 604800000

CommandBodies ==
    {"Hello world", "/stop", "/start", "/help", "/status", "/info",
     "/personalities", "/xyz", "/", "/ "}

CleanupAges == {0, SevenDays}

CmdInit ==
    /\ now = StartTime
    /\ conversations = EmptyCache
    /\ summaries = EmptyStore
    /\ diskConv = EmptyStore
    /\ diskSum = EmptyStore
    /\ appended = [c \in StoreIds |-> 0]
    /\ lastContext = None
    /\ restarts = 0
    /\ lastOp = [op |-> "init"]
    /\ PipeInit
    /\ responseFrequencyLimit = MaxFrequencyLimit

\* processCommand(message), lines 253-286
CmdProcess(from, body) ==
    /\ nEvents < MaxCommandCalls
    /\ nEvents' = nEvents + 1
    /\ userSettings' = processCommandSettings(userSettings, from, body)
    /\ lastOp' = [op |-> "processCommand", from |-> from, body |-> body,
                  reply |-> processCommand(userSettings, from, body)]
    /\ UNCHANGED <<now, memVars, appended, lastContext, restarts, cooldownMap,
                   responseFrequencyLimit, tasks, sent, admissions, ticks, boot, cleanup, ignoredContacts, calls, overlapped,
                   responseHandler>>

\* isUserResponsesEnabled(contactId), lines 452-455
CmdIsEnabled(contactId) ==
    /\ nEvents < MaxCommandCalls
    /\ nEvents' = nEvents + 1
    /\ userSettings' = getUserSettings(userSettings, contactId)
    /\ lastOp' = [op |-> "isUserResponsesEnabled", from |-> contactId,
                  result |-> isUserResponsesEnabled(userSettings, contactId)]
    /\ UNCHANGED <<now, memVars, appended, lastContext, restarts, cooldownMap,
                   responseFrequencyLimit, tasks, sent, admissions, ticks, boot, cleanup, ignoredContacts, calls, overlapped,
                   responseHandler>>

\* cleanupOldSettings(maxAge), lines 508-526
CmdCleanup(maxAge) ==
    /\ nEvents < MaxCommandCalls
    /\ nEvents' = nEvents + 1
    /\ userSettings' = cleanupOldSettings(userSettings, now, maxAge)
    /\ lastOp' = [op |-> "cleanupOldSettings", maxAge |-> maxAge]
    /\ UNCHANGED <<now, memVars, appended, lastContext, restarts, cooldownMap,
                   responseFrequencyLimit, tasks, sent, admissions, ticks, boot, cleanup, ignoredContacts, calls, overlapped,
                   responseHandler>>

\* more than the cleanup age passes
CmdTick ==
    /\ ticks < MaxCommandTicks
    /\ now' = now + SevenDays + 1
    /\ ticks' = ticks + 1
    /\ lastOp' = [op |-> "step"]
    /\ UNCHANGED <<memVars, appended, lastContext, restarts, cooldownMap,
                   userSettings, responseFrequencyLimit, tasks, nEvents, sent,
                   admissions, boot, cleanup, ignoredContacts, calls, overlapped,
                   responseHandler>>

CmdNext ==
    \/ \E c \in Contacts, b \in CommandBodies : CmdProcess(c, b)
    \/ \E c \in Contacts : CmdIsEnabled(c)
    \/ \E a \in CleanupAges : CmdCleanup(a)
    \/ CmdTick

SpecCommands == CmdInit /\ [][CmdNext]_vars

(***************************************************************************)
(* Claims about the CommandHandler, checked under SpecCommands.            *)
(***************************************************************************)

\* C13 as stated: for a body that starts with the command prefix and whose
\* command name is not a recognized command, the body that is only the prefix
\* and the prefix followed by whitespace included, processCommand returns the
\* unknown-command text.
C13_UnknownCommandText ==
    (lastOp.op = "processCommand" /\ lastOp.body \in {"/xyz", "/", "/ "}) =>
        lastOp.reply \in {"Unknown command: xyz", "Unknown command: "}

\* C14: a contact's responsesEnabled starts at the global auto-response
\* default; it changes only in a processCommand call for a /stop of that
\* contact (to disabled) or a /start of that contact (to enabled); every
\* /stop leaves the contact disabled and every /start enabled, whatever came
\* before; no other command, no non-command message, no call for another
\* contact and no cleanupOldSettings call changes it.
C14_PreferenceStateMachine ==
    /\ \A c \in Contacts : isUserResponsesEnabled(userSettings, c) = autoResponsesEnabled
    /\ [][/\ \A c \in Contacts :
                isUserResponsesEnabled(userSettings', c)
                        # isUserResponsesEnabled(userSettings, c)
                    => /\ lastOp'.op = "processCommand"
                       /\ lastOp'.from = c
                       /\ lastOp'.body \in {"/stop", "/start"}
          /\ (lastOp'.op = "processCommand" /\ lastOp'.body = "/stop")
                => ~isUserResponsesEnabled(userSettings', lastOp'.from)
          /\ (lastOp'.op = "processCommand" /\ lastOp'.body = "/start")
                => isUserResponsesEnabled(userSettings', lastOp'.from)
          /\ lastOp'.op = "cleanupOldSettings" => userSettings' = userSettings
       ]_vars

\* a contact is enabled again by its /start after its /stop, more than the
\* cleanup age after the start, while the other contact is disabled
C14_Witness ==
    /\ lastOp.op = "processCommand" /\ lastOp.body = "/start"
    /\ nEvents = MaxCommandCalls
    /\ ticks = 1
    /\ userSettings[lastOp.from].kind = "settings"
    /\ userSettings[lastOp.from].responsesEnabled
    /\ \E c \in Contacts \ {lastOp.from} :
          userSettings[c].kind = "settings" /\ ~userSettings[c].responsesEnabled

(***************************************************************************)
(* The pipeline with a generation capability that may never return, under  *)
(* fair scheduling: a storage write that was started completes, a send     *)
(* that was started returns, and a generation call that is going to return *)
(* or throw does so.  The events are plain messages of the contacts.       *)
(***************************************************************************)
LiveMessages == {Message(c, "Hello world", FALSE) : c \in Contacts}

\* `await this.model.generateContent(prompt)` never settles: no timer and no
\* cancellation surrounds the call, the handler stays suspended at it
GenerationHangs(e) ==
    /\ tasks[e].pc = "generating"
    /\ tasks' = [tasks EXCEPT ![e].pc = "hung", ![e].outcome = "never"]
    /\ lastOp' = [op |-> "step"]
    /\ UNCHANGED <<now, memVars, appended, lastContext, restarts, cooldownMap,
                   userSettings, responseFrequencyLimit, nEvents, sent,
                   admissions, ticks, boot, cleanup, ignoredContacts, calls, overlapped,
                   responseHandler>>

\* a MessageHandler that starts with an empty conversation store
LiveInit ==
    /\ now = StartTime
    /\ conversations = EmptyCache
    /\ summaries = EmptyStore
    /\ diskConv = EmptyStore
    /\ diskSum = EmptyStore
    /\ appended = [c \in StoreIds |-> 0]
    /\ lastContext = None
    /\ restarts = 0
    /\ lastOp = [op |-> "init"]
    /\ PipeInit
    /\ responseFrequencyLimit \in 1..MaxFrequencyLimit

\* no conversation reaches the summarization threshold here, so no summary
\* write is ever pending
LiveNext ==
    \/ \E m \in LiveMessages : Receive(m)
    \/ \E e \in Events : WriteDone(e)
    \/ \E e \in Events, outcome \in GenOutcomes, text \in ResponseTexts :
            GenerationDone(e, outcome, text)
    \/ \E e \in Events : GenerationHangs(e)
    \/ \E e \in Events : SendDone(e)

SpecLive ==
    /\ LiveInit
    /\ [][LiveNext]_vars
    /\ WF_vars(\E e \in Events : WriteDone(e))
    /\ WF_vars(\E e \in Events, outcome \in GenOutcomes, text \in ResponseTexts :
                    GenerationDone(e, outcome, text))
    /\ WF_vars(\E e \in Events : SendDone(e))

\* C15 as stated: every event that reaches the generation step eventually
\* finishes processing, also when its generation call never returns.
C15_GenerationEnds ==
    \A e \in Events : (tasks[e].pc = "generating") ~> (tasks[e].pc = "done")

(***************************************************************************)
(* Unexpected exceptions in handleMessage.  Every awaited call has a catch  *)
(* of its own (addMessage, processCommand, generateAIResponse,             *)
(* sendResponse), so the catch of handleMessage (lines 150-157) is reached  *)
(* from the synchronous statements between them; it only logs.  The        *)
(* handler loop of handleIncomingMessage (part_002 lines 174-183) has a     *)
(* second catch around each handler.                                        *)
(***************************************************************************)
FaultBodies == {"Hello world", "/stop"}

FaultMessages == {Message(c, b, FALSE) : c \in Contacts, b \in FaultBodies}

\* a statement between the filters and addMessage throws (lines 108-111):
\* the catch logs, nothing has been appended
ReceiveThrows(m) ==
    LET stage == FilterStage(m.from, m.body, m.fromMe, cooldownMap, now)
        e == nEvents + 1
    IN  /\ nEvents < MaxEvents
        /\ stage = "pass"
        /\ nEvents' = e
        /\ tasks' = [tasks EXCEPT ![e] =
               [NoTask EXCEPT !.pc = "done", !.from = m.from, !.body = m.body,
                              !.fromMe = m.fromMe, !.stage = stage,
                              !.arrivedAt = now, !.outcome = "exception"]]
        /\ lastOp' = [op |-> "step"]
        /\ UNCHANGED <<now, memVars, appended, lastContext, restarts, cooldownMap,
                       userSettings, responseFrequencyLimit, sent, admissions, ticks, boot, cleanup, ignoredContacts, calls, overlapped,
                       responseHandler>>

\* a statement of generateAIResponse throws while the event waits for its
\* response: the catch of lines 197-203 returns null and handleMessage ends
\* in its else branch (line 147)
GenerateAIResponseCatch(e) ==
    /\ tasks[e].pc = "generating"
    /\ tasks' = [tasks EXCEPT ![e].pc = "done", ![e].context = None,
                              ![e].outcome = "exception"]
    /\ lastOp' = [op |-> "step"]
    /\ UNCHANGED <<now, memVars, appended, lastContext, restarts, cooldownMap,
                   userSettings, responseFrequencyLimit, nEvents, sent,
                   admissions, ticks, boot, cleanup, ignoredContacts, calls, overlapped,
                   responseHandler>>

\* a catch that recorded the short cooldown as the skipped line 119/145 would
catchCooldownRecorded(cooldowns, from, t) ==
    updateCooldown(cooldowns, CooldownKey(from), t)

\* the cooldown map after the catch of handleMessage (lines 150-157), which
\* only logs: the map it found
catchCooldown(cooldowns, from, t) == cooldowns

\* sendResponse has returned and the statement after it throws (lines 119,
\* 145): the catch of lines 150-157 logs and handleMessage returns
HandleMessageCatch(e) ==
    /\ tasks[e].pc \in {"sendCommand", "sendResponse"}
    /\ cooldownMap' = catchCooldown(cooldownMap, tasks[e].from, now)
    /\ tasks' = [tasks EXCEPT ![e].pc = "done", ![e].outcome = "exception"]
    /\ lastOp' = [op |-> "step"]
    /\ UNCHANGED <<now, memVars, appended, lastContext, restarts, userSettings,
                   responseFrequencyLimit, nEvents, sent, admissions, ticks, boot, cleanup, ignoredContacts, calls, overlapped,
                   responseHandler>>

FaultNext ==
    \/ \E m \in FaultMessages : Receive(m)
    \/ \E m \in FaultMessages : ReceiveThrows(m)
    \/ \E e \in Events : WriteDone(e)
    \/ \E e \in Events, outcome \in GenOutcomes, text \in ResponseTexts :
           GenerationDone(e, outcome, text)
    \/ \E e \in Events : GenerateAIResponseCatch(e)
    \/ \E e \in Events : SendDone(e)
    \/ \E e \in Events : HandleMessageCatch(e)

SpecFault == LiveInit /\ [][FaultNext]_vars

\* C16: the step in which an event ends with an unexpected exception ends
\* that event (the exception goes no further) and changes nothing else: the
\* conversations, summaries, storage, cooldown map, user settings, sent
\* texts, admissions and every other event's handler are as they were, so
\* later events meet the state the completed steps left.
C16_ExceptionContained ==
    [][\A e \in Events :
          (tasks[e].outcome # "exception" /\ tasks'[e].outcome = "exception")
          => /\ tasks'[e].pc = "done"
             /\ \A f \in Events \ {e} :
                    f <= nEvents => tasks'[f] = tasks[f]
             /\ UNCHANGED <<now, memVars, appended, cooldownMap, userSettings,
                            responseFrequencyLimit, sent, admissions>>]_vars

\* an event ended with an exception after its reply was sent, and a later
\* event of the same contact at the same instant was answered in full
C16_Witness ==
    \E e, f \in Events :
        /\ e < f
        /\ tasks[e].outcome = "exception"
        /\ SendsOf(e) # {}
        /\ tasks[f].from = tasks[e].from
        /\ tasks[f].pc = "done"
        /\ tasks[f].outcome # "exception"
        /\ SendsOf(f) # {}

(***************************************************************************)
(* Startup reload with a file that cannot be read.  The loop of            *)
(* loadExistingConversations (lines 393-417) runs inside one try block:    *)
(* the first readJson that throws ends the loop, the catch logs a warning  *)
(* and initialize() goes on.  readdir gives the files in no particular     *)
(* order.                                                                   *)
(***************************************************************************)
MaxReloads == 1

\* message counts of the histories found on disk: none, a short one, and one
\* that was summarized by its last addMessage
PriorCounts == {0, 5, 20}

\* what n addMessage calls at time t (n <= summarizationThreshold), each run
\* to its end, leave on disk for one conversation: the last saveConversation
\* wrote all n messages, and the n-th call wrote a summary if it summarized
PersistedHistoryAt(cid, n, t) ==
    LET pushed == [EmptyCache EXCEPT ![cid] =
                      [NewConversation(cid, t) EXCEPT
                          !.messages = [k \in 1..n |->
                                           StoredMessage(MemMessage(cid, k), t)]]]
    IN  IF n = 0
        THEN [diskConv |-> EmptyStore, diskSum |-> EmptyStore]
        ELSE [diskConv |-> saveConversation(pushed, EmptyStore, cid),
              diskSum |-> summarizeDiskSum(pushed, EmptyStore, EmptyStore,
                                           cid, t)]

\* the calls made at the start time
PersistedHistory(cid, n) == PersistedHistoryAt(cid, n, StartTime)

\* the addMessage calls that left the directory: n1 for conversation 111,
\* n2 for conversation 222, none for any other id
PriorAppended(n1, n2) ==
    [c \in StoreIds |-> IF c = "111" THEN n1 ELSE IF c = "222" THEN n2 ELSE 0]

\* the file <k>.json, None when it does not exist
FileContent(k, dconv, dsum) ==
    IF k \in ConvIds THEN dconv[k]
    ELSE LET owner == CHOOSE c \in ConvIds : SummaryFileId(c) = k
         IN  dsum[owner]

\* files.filter(file => file.endsWith('.json')), as cache ids
ConversationFiles(dconv, dsum) ==
    {k \in CacheIds : FileContent(k, dconv, dsum).kind # "none"}

\* the orders in which readdir may list a set of files
Orders(S) ==
    {s \in [1..Cardinality(S) -> S] :
        \A i, j \in 1..Cardinality(S) : i # j => s[i] # s[j]}

\* the for loop of lines 398-411 over the listed files; bad is the file whose
\* readJson throws ("none": every read succeeds)
RECURSIVE loadExistingConversations(_, _, _, _, _)
loadExistingConversations(files, dconv, dsum, bad, acc) ==
    IF files = <<>> THEN acc
    ELSE LET k == Head(files)
             withConv == [acc EXCEPT !.conversations[k] = FileContent(k, dconv, dsum)]
         IN  IF k = bad THEN acc
             ELSE IF k \in ConvIds /\ dsum[k].kind # "none"
             THEN IF SummaryFileId(k) = bad THEN withConv
                  ELSE loadExistingConversations(
                           Tail(files), dconv, dsum, bad,
                           [withConv EXCEPT !.summaries[k] = dsum[k]])
             ELSE loadExistingConversations(Tail(files), dconv, dsum, bad, withConv)

ReloadInit ==
    /\ now = StartTime
    /\ \E n1 \in PriorCounts, n2 \in PriorCounts :
           LET p1 == PersistedHistory("111", n1)
               p2 == PersistedHistory("222", n2)
           IN  /\ diskConv = [c \in StoreIds |-> IF c = "111" THEN p1.diskConv[c]
                                                ELSE p2.diskConv[c]]
               /\ diskSum = [c \in StoreIds |-> IF c = "111" THEN p1.diskSum[c]
                                               ELSE p2.diskSum[c]]
               /\ appended = PriorAppended(n1, n2)
    /\ conversations = EmptyCache
    /\ summaries = EmptyStore
    /\ lastContext = None
    /\ restarts = 0
    /\ lastOp = [op |-> "init"]
    /\ PipeInit
    /\ responseFrequencyLimit = MaxFrequencyLimit

\* ConversationMemory.initialize() of a new process, lines 379-388
Reload(files, bad) ==
    /\ restarts < MaxReloads
    /\ LET loaded == loadExistingConversations(
                         files, diskConv, diskSum, bad,
                         [conversations |-> EmptyCache, summaries |-> EmptyStore])
       IN  /\ conversations' = loaded.conversations
           /\ summaries' = loaded.summaries
    /\ restarts' = restarts + 1
    /\ lastContext' = None
    /\ lastOp' = [op |-> "initialize", files |-> files, bad |-> bad]
    /\ UNCHANGED <<now, diskConv, diskSum, appended, pipeVars>>

ReloadNext ==
    \E files \in Orders(ConversationFiles(diskConv, diskSum)),
       bad \in CacheIds \cup {"none"} : Reload(files, bad)

SpecReload == ReloadInit /\ [][ReloadNext]_vars

\* C17 as stated: after an initialize() in which the read of one
\* conversation's record failed, that conversation is absent from the cache
\* and every other persisted conversation is in the cache with its record,
\* and with its summary when it has one.
C17_ReloadSkipsOnlyUnreadable ==
    (lastOp.op = "initialize" /\ lastOp.bad \in ConvIds) =>
        /\ conversations[lastOp.bad] = None
        /\ \A c \in ConvIds \ {lastOp.bad} :
               /\ conversations[c] = diskConv[c]
               /\ summaries[c] = diskSum[c]

\* with every read succeeding the loop loads what loadConversations and
\* loadSummaries give
ReloadAgreesWithLoad ==
    (lastOp.op = "initialize" /\ lastOp.bad = "none") =>
        /\ conversations = loadConversations(diskConv, diskSum)
        /\ summaries = loadSummaries(diskConv, diskSum)

(***************************************************************************)
(* Start-up.  main() awaits bot.initialize() and then bot.start()          *)
(* (gemini.js lines 498-507).  initialize() constructs the client and the  *)
(* handler, awaits messageHandler.initialize(), which awaits               *)
(* memory.initialize() and so the file loop of loadExistingConversations,  *)
(* and only then registers handleMessage with the client; start() calls    *)
(* client.initialize(), after which the client emits 'message' events.     *)
(***************************************************************************)
StartupCounts1 == {5, 20}
StartupCounts2 == {0, 5}

StartupMessages == {Message(c, "Hello world", FALSE) : c \in Contacts}

StartupInit ==
    /\ now = StartTime
    /\ \E n1 \in StartupCounts1, n2 \in StartupCounts2 :
           LET p1 == PersistedHistory("111", n1)
               p2 == PersistedHistory("222", n2)
           IN  /\ diskConv = [c \in StoreIds |-> IF c = "111" THEN p1.diskConv[c]
                                                ELSE p2.diskConv[c]]
               /\ diskSum = [c \in StoreIds |-> IF c = "111" THEN p1.diskSum[c]
                                               ELSE p2.diskSum[c]]
               /\ appended = PriorAppended(n1, n2)
    /\ conversations = EmptyCache
    /\ summaries = EmptyStore
    /\ lastContext = None
    /\ restarts = 0
    /\ lastOp = [op |-> "init"]
    /\ cooldownMap = [k \in CooldownKeys |-> NoEntry]
    /\ userSettings = [c \in KnownContacts |-> None]
    /\ tasks = [e \in Events |-> NoTask]
    /\ nEvents = 0
    /\ sent = <<>>
    /\ admissions = <<>>
    /\ ticks = 0
    /\ boot = NotStarted
    /\ responseHandler = NewResponseHandler(maxResponseLength)
    /\ cleanup = NoCleanup
    /\ ignoredContacts = IgnoredContacts
    /\ calls = NoCalls
    /\ overlapped = {}
    /\ responseFrequencyLimit = MaxFrequencyLimit

NextStep == IF boot.step <= Len(InitializeOrder) THEN InitializeOrder[boot.step]
            ELSE "none"

BootFrame ==
    /\ lastOp' = [op |-> "step"]
    /\ UNCHANGED <<now, diskConv, diskSum, appended, lastContext, restarts,
                   cooldownMap, userSettings, responseFrequencyLimit, tasks,
                   nEvents, sent, admissions, ticks, cleanup, ignoredContacts, calls, overlapped,
                   responseHandler>>

\* loadExistingConversations lists the directory (part_002 lines 395-396)
ReadDir(files) ==
    /\ NextStep = "initializeMemory"
    /\ boot.phase = "idle"
    /\ boot' = [boot EXCEPT !.phase = "reading", !.files = files, !.read = 0]
    /\ UNCHANGED <<conversations, summaries>>
    /\ BootFrame

\* one turn of the file loop (lines 398-411): the next file and its summary
LoadFile ==
    /\ NextStep = "initializeMemory"
    /\ boot.phase = "reading"
    /\ boot.read < Len(boot.files)
    /\ LET loaded == loadExistingConversations(
                         <<boot.files[boot.read + 1]>>, diskConv, diskSum, "none",
                         [conversations |-> conversations, summaries |-> summaries])
       IN  /\ conversations' = loaded.conversations
           /\ summaries' = loaded.summaries
    /\ boot' = [boot EXCEPT !.read = @ + 1]
    /\ BootFrame

\* the loop is over: memory.initialize() and messageHandler.initialize()
\* return (messageHandler.js lines 30-36)
InitializeDone ==
    /\ NextStep = "initializeMemory"
    /\ boot.phase = "reading"
    /\ boot.read = Len(boot.files)
    /\ boot' = [boot EXCEPT !.phase = "done", !.reloaded = TRUE, !.step = @ + 1]
    /\ UNCHANGED <<conversations, summaries>>
    /\ BootFrame

\* whatsappClient.onMessage(handleMessage), gemini.js lines 273-275
RegisterHandler ==
    /\ NextStep = "registerHandler"
    /\ boot' = [boot EXCEPT !.handlers = @ + 1, !.step = @ + 1]
    /\ UNCHANGED <<conversations, summaries>>
    /\ BootFrame

\* whatsappClient.start(): client.initialize(), part_002 lines 292-300
StartClient ==
    /\ NextStep = "startClient"
    /\ boot' = [boot EXCEPT !.started = TRUE, !.step = @ + 1]
    /\ UNCHANGED <<conversations, summaries>>
    /\ BootFrame

\* the started client emits 'message': handleIncomingMessage calls the
\* registered handlers (part_002 lines 111-113, 174-183); with none
\* registered its loop does nothing
ClientEmits(m) ==
    /\ boot.started
    /\ boot.handlers > 0
    /\ Receive(m)

StartupNext ==
    \/ \E files \in Orders(ConversationFiles(diskConv, diskSum)) : ReadDir(files)
    \/ LoadFile
    \/ InitializeDone
    \/ RegisterHandler
    \/ StartClient
    \/ \E m \in StartupMessages : ClientEmits(m)
    \/ \E e \in Events : WriteDone(e)
    \/ \E e \in Events : SummaryWriteDone(e)
    \/ \E e \in Events, outcome \in GenOutcomes, text \in ResponseTexts :
           GenerationDone(e, outcome, text)
    \/ \E e \in Events : SendDone(e)

SpecStartup == StartupInit /\ [][StartupNext]_vars

\* C18: whenever the handling of an inbound event begins, initialize() of
\* the conversation memory has returned, and when the handling of the first
\* event begins the cache holds every persisted conversation and summary.
C18_ReloadBeforeEvents ==
    [][nEvents' > nEvents =>
          /\ boot.reloaded
          /\ nEvents = 0 =>
                 /\ conversations = loadConversations(diskConv, diskSum)
                 /\ summaries = loadSummaries(diskConv, diskSum)]_vars

\* the first event is being handled for a contact whose summarized history
\* was reloaded from two files
C18_Witness ==
    /\ nEvents = 1
    /\ tasks[1].pc = "saveInbound"
    /\ tasks[1].from = "111@c.us"
    /\ boot.reloaded
    /\ summaries["111"].kind = "summary"
    /\ Len(conversations["111"].messages) = summarizationThreshold + 1

(***************************************************************************)
(* cleanupOldConversations and deleteConversation (part_002 lines          *)
(* 623-672), called on the conversation memory of a process that has       *)
(* reloaded its storage, step by step.  The hourly timer callback          *)
(* (gemini.js lines 408-437) runs between the handlers of message events.  *)
(* The call builds toDelete in one piece (lines 626-632) and then awaits   *)
(* deleteConversation for one id after the other: each call drops the      *)
(* cache entry and the summary at once (lines 653-654) and waits for the   *)
(* removal of the two files (lines 660-663), which end in either order.    *)
(* At every await the steps of addMessage calls can run.                   *)
(***************************************************************************)
OneDay == 86400000
MaxCleanupCalls == 3
MaxCleanupTicks == 2
MaxRemoveFailures == 1

\* maxAge arguments: 0 and one day (the default of thirty days is beyond the
\* 32-bit integers of the model checker; the comparison is the same)
CleanupMaxAges == {0, OneDay}

\* the clock advances by a millisecond or by a day
CleanupTickSteps == {1, OneDay}

\* the condition of line 629 with >= for >
isOldInclusive(conversation, t, maxAge) ==
    /\ conversation.kind = "conversation"
    /\ t - conversation.updatedAt >= maxAge

\* line 629: now - conversation.updatedAt > maxAge; a cache entry loaded
\* from a summary file has no updatedAt, and NaN > maxAge is false
isOld(conversation, t, maxAge) ==
    /\ conversation.kind = "conversation"
    /\ t - conversation.updatedAt > maxAge

\* the toDelete list of lines 626-632
toDelete(convs, t, maxAge) == {k \in StoreCacheIds : isOld(convs[k], t, maxAge)}

\* the maxAge default of line 623, in days
DefaultMaxAgeDays == 30

\* the maxAge default of Helpers.cleanupCooldowns, helpers.js line 160
DefaultCooldownMaxAge == OneDay

\* t - timestamp > days * OneDay, computed on days and the rest of the day,
\* each within the 32-bit integers of the model checker
OlderThanDays(t, timestamp, days) ==
    LET k == (t \div OneDay) - (timestamp \div OneDay)
    IN  \/ k > days
        \/ k = days /\ t % OneDay > timestamp % OneDay

\* the instant days * OneDay before t
DaysBefore(t, days) == ((t \div OneDay) - days) * OneDay + (t % OneDay)

\* line 629 with the default maxAge
isOldDefault(conversation, t) ==
    /\ conversation.kind = "conversation"
    /\ OlderThanDays(t, conversation.updatedAt, DefaultMaxAgeDays)

\* the toDelete list of a call without argument
toDeleteDefault(convs, t) == {k \in StoreCacheIds : isOldDefault(convs[k], t)}

CleanupInit ==
    /\ now = StartTime
    /\ \E n1 \in PriorCounts, n2 \in StartupCounts2 :
           LET p1 == PersistedHistory("111", n1)
               p2 == PersistedHistory("222", n2)
           IN  /\ diskConv = [c \in StoreIds |-> IF c = "111" THEN p1.diskConv[c]
                                                ELSE p2.diskConv[c]]
               /\ diskSum = [c \in StoreIds |-> IF c = "111" THEN p1.diskSum[c]
                                               ELSE p2.diskSum[c]]
               /\ appended = PriorAppended(n1, n2)
    /\ conversations = loadConversations(diskConv, diskSum)
    /\ summaries = loadSummaries(diskConv, diskSum)
    /\ lastContext = None
    /\ restarts = 0
    /\ lastOp = [op |-> "init"]
    /\ PipeInit
    /\ responseFrequencyLimit = MaxFrequencyLimit

\* addMessage(cid, message) up to its first await; MemWriteDone and
\* MemSummaryWriteDone are its later steps
CleanupAddMessage(cid) ==
    /\ nEvents < MaxCleanupCalls
    /\ nEvents' = nEvents + 1
    /\ AddMessageCall(cid)
    /\ lastOp' = [op |-> "addMessageCall", cid |-> cid]
    /\ UNCHANGED <<now, summaries, diskConv, diskSum, restarts, cooldownMap,
                   userSettings, responseFrequencyLimit, tasks, sent,
                   admissions, ticks, boot, cleanup, ignoredContacts,
                   responseHandler>>

\* conversations.delete(id); summaries.delete(id)
deleteFromMemory(f, cid) == [f EXCEPT ![cid] = None]

\* an addMessage call in progress keeps the conversation object it pushed
\* to (line 434) when deleteConversation drops the object from the cache:
\* line 450 reads the length of that object
detachCalls(cs, convs, cid) ==
    [k \in CallSlots |->
        IF cs[k].pc # "idle" /\ cs[k].cid = cid /\ ~cs[k].detached
              /\ convs[cid] # None
        THEN [cs[k] EXCEPT !.detached = TRUE,
                           !.length = Len(convs[cid].messages)]
        ELSE cs[k]]

\* the files deleteConversation removes, lines 660-663
RemovedFiles == {"conversation", "summary"}

\* cleanupOldConversations returns.  When MessageHandler.cleanup made the
\* call it goes on in the same turn with Helpers.cleanupCooldowns and
\* cleanupOldSettings, each with its default age (messageHandler.js lines
\* 333-336, helpers.js line 160, part_004 line 508)
CleanupReturns(handler, maxAge, listed, failed) ==
    /\ cleanup' = NoCleanup
    /\ IF handler
       THEN /\ cooldownMap' = cleanupCooldowns(cooldownMap, now, DefaultCooldownMaxAge)
            /\ userSettings' = cleanupOldSettings(userSettings, now, SevenDays)
            /\ lastOp' = [op |-> "cleanup", deleted |-> listed, failed |-> failed]
       ELSE /\ UNCHANGED <<cooldownMap, userSettings>>
            /\ lastOp' = [op |-> "cleanupOldConversations", maxAge |-> maxAge,
                          deleted |-> listed, failed |-> failed]

\* cleanupOldConversations up to its first await: the list ids, and the
\* first deleteConversation up to the removal of the files; with an empty
\* list the call returns without a wait
CleanupBegins(ids, order, maxAge, handler) ==
    /\ ~cleanup.active
    /\ order \in Orders(ids)
    /\ IF order = <<>>
       THEN /\ CleanupReturns(handler, maxAge, {}, FALSE)
            /\ UNCHANGED <<conversations, summaries, calls>>
       ELSE /\ cleanup' = [active |-> TRUE, removing |-> Head(order),
                           left |-> RemovedFiles, pending |-> Tail(order),
                           listed |-> ids, maxAge |-> maxAge,
                           quiet |-> calls = NoCalls, failures |-> 0,
                           handler |-> handler, started |-> appended]
            /\ lastOp' = [op |-> "cleanupStart", maxAge |-> maxAge]
            /\ conversations' = deleteFromMemory(conversations, Head(order))
            /\ summaries' = deleteFromMemory(summaries, Head(order))
            /\ calls' = detachCalls(calls, conversations, Head(order))
            /\ UNCHANGED <<cooldownMap, userSettings>>
    /\ UNCHANGED <<now, diskConv, diskSum, appended, lastContext, restarts,
                   responseFrequencyLimit, tasks, sent, admissions, ticks, boot,
                   ignoredContacts, overlapped, responseHandler>>

\* cleanupOldConversations(maxAge) called on the memory
CleanupStart(maxAge, order) ==
    /\ nEvents < MaxCleanupCalls
    /\ nEvents' = nEvents + 1
    /\ CleanupBegins(toDelete(conversations, now, maxAge), order, maxAge, FALSE)

\* one fs.remove of the running deleteConversation has ended, done or
\* rejected (the catch of lines 661-662 swallows the rejection and the file
\* stays); with the second one the loop goes on to the deleteConversation
\* of the next listed id, or the call returns
RemoveEnds(file, done) ==
    /\ cleanup.active
    /\ file \in cleanup.left
    /\ diskConv' = IF done /\ file = "conversation"
                   THEN [diskConv EXCEPT ![cleanup.removing] = None]
                   ELSE diskConv
    /\ diskSum' = IF done /\ file = "summary"
                  THEN [diskSum EXCEPT ![cleanup.removing] = None]
                  ELSE diskSum
    /\ LET failures == cleanup.failures + (IF done THEN 0 ELSE 1)
           step == [op |-> IF done THEN "cleanupRemoveDone" ELSE "cleanupRemoveFailed",
                    cid |-> cleanup.removing]
       IN  IF cleanup.left # {file}
           THEN /\ cleanup' = [cleanup EXCEPT !.left = @ \ {file},
                                                   !.failures = failures]
                /\ lastOp' = step
                /\ UNCHANGED <<conversations, summaries, calls, cooldownMap,
                               userSettings>>
           ELSE IF cleanup.pending = <<>>
           THEN /\ CleanupReturns(cleanup.handler, cleanup.maxAge, cleanup.listed,
                                  failures > 0)
                /\ UNCHANGED <<conversations, summaries, calls>>
           ELSE /\ cleanup' = [cleanup EXCEPT !.removing = Head(cleanup.pending),
                                              !.left = RemovedFiles,
                                              !.pending = Tail(cleanup.pending),
                                              !.failures = failures]
                /\ lastOp' = step
                /\ conversations' = deleteFromMemory(conversations, Head(cleanup.pending))
                /\ summaries' = deleteFromMemory(summaries, Head(cleanup.pending))
                /\ calls' = detachCalls(calls, conversations, Head(cleanup.pending))
                /\ UNCHANGED <<cooldownMap, userSettings>>
    /\ UNCHANGED <<now, appended, lastContext, restarts, responseFrequencyLimit,
                   tasks, nEvents, sent, admissions, ticks, boot, ignoredContacts,
                   overlapped, responseHandler>>

\* fs.remove resolves
CleanupRemoveDone(file) ==
    /\ cleanup.active
    /\ RemoveEnds(file, TRUE)

\* fs.remove rejects; at most MaxRemoveFailures times in a call
CleanupRemoveFails(file) ==
    /\ cleanup.active
    /\ cleanup.failures < MaxRemoveFailures
    /\ RemoveEnds(file, FALSE)

CleanupTick(d) ==
    /\ ticks < MaxCleanupTicks
    /\ now' = now + d
    /\ ticks' = ticks + 1
    /\ lastOp' = [op |-> "step"]
    /\ UNCHANGED <<memVars, appended, lastContext, restarts, cooldownMap,
                   userSettings, responseFrequencyLimit, tasks, nEvents, sent,
                   admissions, boot, cleanup, ignoredContacts, calls, overlapped,
                   responseHandler>>

CleanupNext ==
    \/ \E cid \in ConvIds : CleanupAddMessage(cid)
    \/ \E k \in CallSlots : MemWriteDone(k)
    \/ \E k \in CallSlots : MemSummaryWriteDone(k)
    \/ \E maxAge \in CleanupMaxAges :
           \E order \in Orders(toDelete(conversations, now, maxAge)) :
               CleanupStart(maxAge, order)
    \/ \E file \in RemovedFiles : CleanupRemoveDone(file)
    \/ \E file \in RemovedFiles : CleanupRemoveFails(file)
    \/ \E d \in CleanupTickSteps : CleanupTick(d)

SpecCleanup == CleanupInit /\ [][CleanupNext]_vars

\* a step of the cleanupOldConversations call
CleanupStep == lastOp'.op \in {"cleanupStart", "cleanupRemoveDone",
                               "cleanupRemoveFailed", "cleanupOldConversations"}

\* C19: a call of cleanupOldConversations(maxAge) lists exactly the
\* conversations whose updatedAt is more than maxAge before now; each of its
\* steps takes the cache entry and the summary of the listed conversation
\* whose deletion it begins, or one of the two files of the conversation
\* whose deletion is running, and leaves the cache entry, the summary and
\* both files of every other conversation as they were (a removal that is
\* rejected leaves the file); when the call returns, no addMessage ran
\* during it and no removal was rejected, no listed conversation has a
\* cache entry, a summary, a conversation file or a summary file.
C19_CleanupExact ==
    [][CleanupStep =>
          /\ ~cleanup.active =>
                 /\ (IF cleanup'.active THEN cleanup'.listed ELSE lastOp'.deleted)
                        = {c \in ConvIds :
                              /\ conversations[c].kind = "conversation"
                              /\ now - conversations[c].updatedAt > lastOp'.maxAge}
                 /\ UNCHANGED <<diskConv, diskSum>>
          /\ \A c \in ConvIds :
                 IF /\ cleanup'.active /\ c = cleanup'.removing
                    /\ (cleanup.active => cleanup.removing # c)
                 THEN /\ c \in cleanup'.listed
                      /\ conversations'[c] = None
                      /\ summaries'[c] = None
                 ELSE /\ conversations'[c] = conversations[c]
                      /\ summaries'[c] = summaries[c]
          /\ \A c \in ConvIds :
                 IF cleanup.active /\ c = cleanup.removing
                 THEN /\ diskConv'[c] \in {None, diskConv[c]}
                      /\ diskSum'[c] \in {None, diskSum[c]}
                      /\ <<diskConv'[c], diskSum'[c]>> # <<diskConv[c], diskSum[c]>>
                            => cleanup.left # cleanup'.left
                      /\ lastOp'.op = "cleanupRemoveFailed" =>
                            /\ diskConv'[c] = diskConv[c]
                            /\ diskSum'[c] = diskSum[c]
                 ELSE /\ diskConv'[c] = diskConv[c]
                      /\ diskSum'[c] = diskSum[c]
          /\ (cleanup.active /\ ~cleanup'.active /\ cleanup.quiet
                 /\ appended = cleanup.started /\ ~lastOp'.failed) =>
                 \A c \in cleanup.listed :
                     /\ conversations'[c] = None
                     /\ summaries'[c] = None
                     /\ diskConv'[c] = None
                     /\ diskSum'[c] = None
      ]_vars

\* a cleanup with an age of one day, with no addMessage running, has
\* returned after it deleted the summarized conversation 111 and kept
\* conversation 222, whose last message is exactly that age old
C19_Witness ==
    /\ lastOp.op = "cleanupOldConversations"
    /\ ~lastOp.failed
    /\ lastOp.maxAge = OneDay
    /\ lastOp.deleted = {"111"}
    /\ calls = NoCalls
    /\ appended["111"] >= summarizationThreshold
    /\ conversations["111"] = None
    /\ summaries["111"] = None
    /\ diskConv["111"] = None
    /\ diskSum["111"] = None
    /\ conversations["222"].kind = "conversation"
    /\ now - conversations["222"].updatedAt = OneDay
    /\ diskConv["222"] = conversations["222"]

(***************************************************************************)
(* The context of a generation call (generateAIResponse line 169 calls     *)
(* getConversationContext with the conversation id only), checked under    *)
(* SpecMemory, where the k-th message appended to a conversation is        *)
(* MemMessage(cid, k), stored at StartTime.                                *)
(***************************************************************************)
LastAppended(cid) ==
    [i \in 1..maxContextMessages |->
        StoredMessage(MemMessage(cid, appended[cid] - maxContextMessages + i),
                      StartTime)]

\* C20: for a conversation with at least maxContextMessages appended
\* messages, getConversationContext with the default limit returns exactly
\* the maxContextMessages messages appended last, in the order of their
\* appends, after any number of summarizations and restarts, also while an
\* addMessage call is between its steps.
C20_ContextIsLatest ==
    \A cid \in ConvIds :
        appended[cid] >= maxContextMessages =>
            getConversationContext(conversations, summaries, cid, 0).messages
                = LastAppended(cid)

(***************************************************************************)
(* The text of a generated response as a function of the configured        *)
(* maximum length and of the raw text of the generation call.  A raw text  *)
(* is a sequence of the characters a, space and backtick; on such texts    *)
(* the replacements of bold, italic and header markup in cleanResponse     *)
(* (lines 72-74) match nothing.  A fallback text is kept as the program's string  *)
(* with the number of characters the truncation keeps.  updateSettings and *)
(* updateMaxResponseLength are public and synchronous; nothing in the      *)
(* repository calls them, a program that embeds the handler can, also      *)
(* while generateResponse waits for the generation call.                   *)
(***************************************************************************)
MaxRawLen == 6

\* the character U+0060, which a string of the model cannot hold
Backtick == "BACKTICK"

RawChars == {"a", " ", Backtick}

RawTexts == UNION {[1..n -> RawChars] : n \in 0..MaxRawLen}

\* values of bot.maxResponseLength (MAX_RESPONSE_LENGTH): the documented
\* default and small ones
ConfiguredMaxima == {2, 3, 5, maxResponseLength}

\* values passed to updateSettings and updateMaxResponseLength
UpdatedMaxima == {0, 3, 5, maxResponseLength}

\* calls of generateResponse, and of the two update methods, in a behaviour
MaxGenerateCalls == 1
MaxSettingsUpdates == 2

CharText(chars) == [kind |-> "chars", chars |-> chars]

FallbackText(s) == [kind |-> "fallback", text |-> s, keep |-> StrLen(s), dots |-> FALSE]

\* String.prototype.length
TextLength(t) ==
    IF t.kind = "chars" THEN Len(t.chars)
    ELSE t.keep + (IF t.dots THEN 3 ELSE 0)

\* t.length > maxLength ? t.substring(0, maxLength - 3) + "..." : t
\* (gemini.js lines 65-67, part_004 lines 77-79); substring takes a negative
\* end as 0
TruncateText(t, maxLength) ==
    IF TextLength(t) <= maxLength THEN t
    ELSE IF t.kind = "chars"
    THEN CharText(SubSeq(t.chars, 1, Max(maxLength - 3, 0)) \o <<".", ".", ".">>)
    ELSE [t EXCEPT !.keep = Max(maxLength - 3, 0), !.dots = TRUE]

\* String.prototype.trim
RECURSIVE Trim(_)
Trim(s) ==
    IF s = <<>> THEN s
    ELSE IF Head(s) = " " THEN Trim(Tail(s))
    ELSE IF s[Len(s)] = " " THEN Trim(SubSeq(s, 1, Len(s) - 1))
    ELSE s

IsFence(s, i) == i + 2 <= Len(s) /\ s[i] = Backtick /\ s[i + 1] = Backtick /\ s[i + 2] = Backtick

\* the replacement of code blocks (line 70): the leftmost fence of three
\* backticks with the nearest
\* closing fence after it, then on from the end of the match
RECURSIVE RemoveCodeBlocks(_)
RemoveCodeBlocks(s) ==
    LET opens == {i \in 1..Len(s) :
                     IsFence(s, i) /\ \E j \in (i + 3)..Len(s) : IsFence(s, j)}
    IN  IF opens = {} THEN s
        ELSE LET i == CHOOSE x \in opens : \A y \in opens : x <= y
                 closes == {j \in (i + 3)..Len(s) : IsFence(s, j)}
                 j == CHOOSE x \in closes : \A y \in closes : x <= y
             IN  SubSeq(s, 1, i - 1) \o RemoveCodeBlocks(SubSeq(s, j + 3, Len(s)))

\* the replacement of inline code (line 71): the leftmost backtick up to the
\* next one
RECURSIVE RemoveInlineCode(_)
RemoveInlineCode(s) ==
    LET ticks1 == {i \in 1..Len(s) : s[i] = Backtick}
    IN  IF Cardinality(ticks1) < 2 THEN s
        ELSE LET i == CHOOSE x \in ticks1 : \A y \in ticks1 : x <= y
                 later == ticks1 \ {i}
                 j == CHOOSE x \in later : \A y \in later : x <= y
             IN  SubSeq(s, 1, i - 1) \o RemoveInlineCode(SubSeq(s, j + 1, Len(s)))

\* ResponseHandler.cleanResponse (part_004 lines 61-87): the texts it may
\* return; fallback is the text getFallbackResponse draws
cleanResponseText(response, maxLength, fallback) ==
    IF TextLength(response) = 0 THEN FallbackText(fallback)
    ELSE LET stripped == IF response.kind = "chars"
                         THEN CharText(RemoveInlineCode(RemoveCodeBlocks(
                                           Trim(response.chars))))
                         ELSE response
             cleaned == TruncateText(stripped, maxLength)
         IN  IF TextLength(cleaned) < 3 THEN FallbackText(fallback) ELSE cleaned

\* what the generation call does: it throws or returns a raw text
GenerationResults == {[kind |-> "throw"]} \cup {CharText(r) : r \in RawTexts}

\* GeminiAI.generateResponse (gemini.js lines 50-84); fallback is the text
\* its getFallbackResponse draws
geminiResponseText(raw, maxLength, fallback) ==
    IF raw.kind = "throw" THEN FallbackText(fallback)
    ELSE TruncateText(raw, maxLength)

\* a ResponseHandler built with one of the configured maxima, no call made
\* yet
ResponseInit ==
    /\ now = StartTime
    /\ conversations = EmptyCache
    /\ summaries = EmptyStore
    /\ diskConv = EmptyStore
    /\ diskSum = EmptyStore
    /\ appended = [c \in StoreIds |-> 0]
    /\ lastContext = None
    /\ restarts = 0
    /\ boot = Running
    /\ cleanup = NoCleanup
    /\ ignoredContacts = IgnoredContacts
    /\ calls = NoCalls
    /\ overlapped = {}
    /\ cooldownMap = [k \in CooldownKeys |-> NoEntry]
    /\ userSettings = [c \in KnownContacts |-> None]
    /\ tasks = [e \in Events |-> NoTask]
    /\ nEvents = 0
    /\ sent = <<>>
    /\ admissions = <<>>
    /\ ticks = 0
    /\ responseFrequencyLimit = MaxFrequencyLimit
    /\ \E maxLength \in ConfiguredMaxima :
           responseHandler = NewResponseHandler(maxLength)
    /\ lastOp = [op |-> "init"]

\* the frame of the steps of the ResponseHandler
ResponseFrame ==
    UNCHANGED <<now, memVars, appended, lastContext, restarts, cooldownMap,
                userSettings, responseFrequencyLimit, tasks, sent, admissions,
                boot, cleanup, ignoredContacts, calls, overlapped>>

\* ResponseHandler.updateSettings({maxResponseLength: maxLength}) (part_004
\* lines 148-152): a value that is not falsy becomes the maximum of the
\* handler and, through updateMaxResponseLength, of its GeminiAI
UpdateSettings(maxLength) ==
    /\ ticks < MaxSettingsUpdates
    /\ ticks' = ticks + 1
    /\ responseHandler' =
           IF maxLength # 0
           THEN [responseHandler EXCEPT !.maxResponseLength = maxLength,
                                        !.geminiMaxResponseLength = maxLength]
           ELSE responseHandler
    /\ lastOp' = [op |-> "updateSettings", maxLength |-> maxLength]
    /\ UNCHANGED nEvents
    /\ ResponseFrame

\* GeminiAI.updateMaxResponseLength(newLength) (gemini.js lines 219-222),
\* called on the GeminiAI alone
UpdateMaxResponseLength(newLength) ==
    /\ ticks < MaxSettingsUpdates
    /\ ticks' = ticks + 1
    /\ responseHandler' = [responseHandler EXCEPT !.geminiMaxResponseLength = newLength]
    /\ lastOp' = [op |-> "updateMaxResponseLength", maxLength |-> newLength]
    /\ UNCHANGED nEvents
    /\ ResponseFrame

\* ResponseHandler.generateResponse (part_004 lines 23-31) up to the wait
\* for the generation call (gemini.js line 60)
GenerateResponse ==
    /\ nEvents < MaxGenerateCalls
    /\ ~responseHandler.generating
    /\ nEvents' = nEvents + 1
    /\ responseHandler' = [responseHandler EXCEPT !.generating = TRUE]
    /\ lastOp' = [op |-> "generateResponseCall"]
    /\ UNCHANGED ticks
    /\ ResponseFrame

\* the generation call has thrown or returned the raw text: GeminiAI
\* truncates it to its maximum or draws a fallback (gemini.js lines 61-83),
\* and cleanResponse cleans what it returned with the maximum of the
\* handler (part_004 lines 34-43), each maximum read now
GenerateResponseReturns(raw, geminiFallback, handlerFallback) ==
    /\ responseHandler.generating
    /\ responseHandler' = [responseHandler EXCEPT !.generating = FALSE]
    /\ lastOp' = [op |-> "generateResponse",
                  maxLength |-> responseHandler.maxResponseLength,
                  raw |-> raw,
                  result |-> cleanResponseText(
                                 geminiResponseText(raw,
                                     responseHandler.geminiMaxResponseLength,
                                     geminiFallback),
                                 responseHandler.maxResponseLength, handlerFallback)]
    /\ UNCHANGED <<nEvents, ticks>>
    /\ ResponseFrame

\* no text drawn: getFallbackResponse was not called
NoDraw == ""

\* the texts GeminiAI.getFallbackResponse may draw in the call: it is called
\* in the catch only (gemini.js line 82)
GeminiDraws(raw) == IF raw.kind = "throw" THEN GeminiFallbacks ELSE {NoDraw}

\* the texts ResponseHandler.getFallbackResponse may draw in the call: it is
\* called when cleanResponse finds no text or fewer than 3 characters
\* (part_004 lines 62-64 and 82-84)
HandlerDraws(response, maxLength) ==
    IF cleanResponseText(response, maxLength, NoDraw).kind = "fallback"
    THEN HandlerFallbacks ELSE {NoDraw}

ResponseNext ==
    \/ \E maxLength \in UpdatedMaxima : UpdateSettings(maxLength)
    \/ \E newLength \in UpdatedMaxima : UpdateMaxResponseLength(newLength)
    \/ GenerateResponse
    \/ /\ responseHandler.generating
       /\ \E raw \in GenerationResults :
          \E geminiFallback \in GeminiDraws(raw) :
          \E handlerFallback \in HandlerDraws(
                   geminiResponseText(raw, responseHandler.geminiMaxResponseLength,
                                      geminiFallback),
                   responseHandler.maxResponseLength) :
              GenerateResponseReturns(raw, geminiFallback, handlerFallback)

SpecResponse == ResponseInit /\ [][ResponseNext]_vars

\* C21 as stated: the text generateResponse returns for sending, a fallback
\* text included, is never longer than the configured maximum response
\* length (the maximum the handler has when the call returns).
C21_ResponseWithinMaximum ==
    lastOp.op = "generateResponse" =>
        TextLength(lastOp.result) <= lastOp.maxLength

(***************************************************************************)
(* Order of the steps of a generated response, checked under Spec.         *)
(***************************************************************************)

\* C22 as stated: send comes before the append of the agent's message; so
\* every agent message a conversation holds (from "bot", type "text") is the
\* text of a send of a generated response to that conversation's contact
\* that has already been invoked.
C22_SendBeforeAppend ==
    \A cid \in ConvIds :
        conversations[cid].kind = "conversation" =>
            \A i \in DOMAIN conversations[cid].messages :
                LET message == conversations[cid].messages[i]
                IN  (message.from = "bot" /\ message.type = "text") =>
                        \E j \in DOMAIN sent :
                            /\ sent[j].kind = "generated"
                            /\ sent[j].to = ContactOf(cid)
                            /\ sent[j].text = message.body

(***************************************************************************)
(* Persistence after a summarization, checked under SpecMemory (every      *)
(* write succeeds).                                                         *)
(***************************************************************************)

\* C23 as stated: when an addMessage that summarized has returned (the calls
\* of the conversation running one after the other), the persisted
\* conversation record is the in-memory conversation with its retained
\* messages only, and the persisted summary record is the in-memory summary.
C23_PersistedAfterSummarization ==
    (lastOp.op = "addMessage" /\ lastOp.summarized /\ Settled(lastOp.cid)) =>
        /\ diskConv[lastOp.cid] = conversations[lastOp.cid]
        /\ diskSum[lastOp.cid] = summaries[lastOp.cid]

(***************************************************************************)
(* Failing storage writes.  saveConversation and saveSummary catch the     *)
(* error of writeJson and log it (part_002 lines 569-599), so addMessage   *)
(* and summarizeConversation go on as after a write that succeeded.  A     *)
(* write that fails leaves the file as it was or, when it fails after the  *)
(* file was opened, unreadable.                                            *)
(***************************************************************************)
Unreadable == [kind |-> "unreadable"]

\* how a failed writeJson leaves the file
FailedWrites == {"kept", "unreadable"}

failedWrite(record, left) == IF left = "kept" THEN record ELSE Unreadable

\* the catch of saveConversation (lines 575-580) swallows the error and
\* addMessage goes on to its summarization check (lines 450-452)
afterFailedSave(convs, cid) == summarizeConversations(convs, cid)

\* the write of saveConversation fails
WriteFails(e, left) ==
    /\ tasks[e].pc \in {"saveInbound", "saveBot"}
    /\ diskConv' = [diskConv EXCEPT ![ConvOf(e)] = failedWrite(@, left)]
    /\ conversations' = afterFailedSave(conversations, ConvOf(e))
    /\ summaries' = IF conversations' = conversations THEN summaries
                    ELSE summarizeSummaries(conversations, summaries, ConvOf(e), now)
    /\ IF conversations' # conversations
       THEN /\ tasks' = [tasks EXCEPT
                   ![e].pc = IF tasks[e].pc = "saveInbound"
                             THEN "saveInboundSummary" ELSE "saveBotSummary",
                   ![e].write = summaries'[ConvOf(e)]]
            /\ UNCHANGED <<cooldownMap, userSettings, sent, admissions>>
       ELSE IF tasks[e].pc = "saveInbound" THEN Route(e) ELSE SendGenerated(e)
    /\ lastOp' = [op |-> "writeFailed", event |-> e]
    /\ UNCHANGED <<now, diskSum, appended, lastContext, restarts,
                   responseFrequencyLimit, nEvents, ticks, boot, cleanup, ignoredContacts, calls, overlapped,
                   responseHandler>>

\* the write of saveSummary fails
SummaryWriteFails(e, left) ==
    /\ tasks[e].pc \in {"saveInboundSummary", "saveBotSummary"}
    /\ diskSum' = [diskSum EXCEPT ![ConvOf(e)] = failedWrite(@, left)]
    /\ UNCHANGED <<conversations, summaries>>
    /\ IF tasks[e].pc = "saveInboundSummary" THEN Route(e) ELSE SendGenerated(e)
    /\ lastOp' = [op |-> "writeFailed", event |-> e]
    /\ UNCHANGED <<now, diskConv, appended, lastContext, restarts,
                   responseFrequencyLimit, nEvents, ticks, boot, cleanup, ignoredContacts, calls, overlapped,
                   responseHandler>>

WriteNext ==
    \/ \E m \in LiveMessages : Receive(m)
    \/ \E e \in Events : WriteDone(e)
    \/ \E e \in Events, left \in FailedWrites : WriteFails(e, left)
    \/ \E e \in Events : SummaryWriteDone(e)
    \/ \E e \in Events, left \in FailedWrites : SummaryWriteFails(e, left)
    \/ \E e \in Events, outcome \in GenOutcomes, text \in ResponseTexts :
           GenerationDone(e, outcome, text)
    \/ \E e \in Events : SendDone(e)

\* earlier messages of the contact, two short of the summarization
\* threshold: the inbound message is the 19th and the reply the 20th
WritePrior == 18

WriteInit ==
    /\ now = StartTime
    /\ conversations = PriorMemory(PriorConversation, WritePrior).conversations
    /\ summaries = PriorMemory(PriorConversation, WritePrior).summaries
    /\ diskConv = PriorMemory(PriorConversation, WritePrior).diskConv
    /\ diskSum = PriorMemory(PriorConversation, WritePrior).diskSum
    /\ appended = [c \in StoreIds |-> IF c = PriorConversation THEN WritePrior ELSE 0]
    /\ lastContext = None
    /\ restarts = 0
    /\ lastOp = [op |-> "init"]
    /\ PipeInit
    /\ responseFrequencyLimit = MaxFrequencyLimit

SpecWrite == WriteInit /\ [][WriteNext]_vars

Front(s) == SubSeq(s, 1, Len(s) - 1)

\* event e is the only one that waits for a write of the record of cid
OnlyWriter(e, cid) ==
    \A o \in Events \ {e} :
        tasks[o].pc \in {"saveInbound", "saveBot"} => ConvOf(o) # cid

\* the record on disk misses an earlier append: its write failed
StaleRecord(cid) ==
    \/ diskConv[cid] = Unreadable
    \/ /\ diskConv[cid].kind = "conversation"
       /\ diskConv[cid].messages # Front(conversations[cid].messages)

\* C24: when a write of addMessage or summarizeConversation fails, the
\* appended message is still the last message of the conversation, a due
\* summarization takes place (summary made, recent messages kept), the
\* event goes on as after a successful write (no error reaches the caller)
\* and no write of the record is pending again; and when the next write of
\* a conversation whose record is stale succeeds, with no other write of
\* the record pending, the record on disk is the conversation in memory
\* once that addMessage has finished its step.
C24_WriteFailureKeepsMemory ==
    [][\A e \in Events :
          LET cid == ConvOf(e)
              due == summarizeApplies(conversations, cid)
          IN  /\ (tasks[e].pc \in {"saveInbound", "saveBot"}
                    /\ tasks'[e].pc # tasks[e].pc) =>
                   /\ tasks'[e].pc \in {"saveInboundSummary", "saveBotSummary",
                                        "generating", "sendCommand",
                                        "sendResponse", "done"}
                   /\ tasks'[e].pc \in {"saveInboundSummary", "saveBotSummary"} <=> due
                   /\ tasks'[e].write \in {None, summaries'[cid]}
                   /\ conversations'[cid].messages[Len(conversations'[cid].messages)]
                          = conversations[cid].messages[Len(conversations[cid].messages)]
                   /\ due => /\ Len(conversations'[cid].messages) = maxContextMessages
                             /\ summaries'[cid].kind = "summary"
                             /\ summaries'[cid].messageCount
                                    = Len(conversations[cid].messages) - maxContextMessages
                   /\ ~due => conversations'[cid] = conversations[cid]
                   /\ (lastOp'.op # "writeFailed" /\ StaleRecord(cid)
                         /\ OnlyWriter(e, cid)) =>
                          diskConv'[cid] = conversations'[cid]
              /\ (tasks[e].pc \in {"saveInboundSummary", "saveBotSummary"}
                    /\ tasks'[e].pc # tasks[e].pc) =>
                   /\ tasks'[e].pc \in {"generating", "sendCommand", "sendResponse",
                                        "done"}
                   /\ tasks'[e].write = None
                   /\ UNCHANGED <<conversations, summaries>>
                   /\ lastOp'.op # "writeFailed" => diskSum'[cid] = summaries[cid]
      ]_vars

\* C25: after an initialize() in which every read succeeded, the cache holds
\* an entry for exactly the conversation ids that have a persisted
\* conversation record, every cached value is a Conversation (it has a
\* messages list), and a persisted Summary is the summary of its
\* conversation and nothing else.
C25_ReloadLoadsConversationsOnly ==
    (lastOp.op = "initialize" /\ lastOp.bad = "none") =>
        /\ {k \in CacheIds : conversations[k] # None}
               = {c \in ConvIds : diskConv[c].kind = "conversation"}
        /\ \A k \in CacheIds :
               conversations[k] # None => conversations[k].kind = "conversation"
        /\ \A c \in ConvIds :
               diskConv[c].kind = "conversation" => summaries[c] = diskSum[c]

(***************************************************************************)
(* The cleanup timer and the handlers of message events, checked under     *)
(* SpecCleanup: an addMessage of any conversation can run at each await of  *)
(* cleanupOldConversations.                                                 *)
(***************************************************************************)
\* C26: a conversation that had a message appended since the running
\* cleanupOldConversations built its list is not deleted from the cache by
\* that call, and the record of a conversation the call has deleted from
\* the cache is not removed from storage when it holds such a message.
C26_CleanupSparesAppended ==
    [][\A c \in ConvIds :
          /\ (conversations[c] # None /\ conversations'[c] = None) =>
                 appended[c] = cleanup'.started[c]
          /\ (cleanup.active /\ conversations[c] = None
                /\ diskConv[c] # None /\ diskConv'[c] = None) =>
                 appended[c] = cleanup.started[c]
      ]_vars

(***************************************************************************)
(* MessageHandler.cleanup (messageHandler.js lines 327-342), the callback  *)
(* of the hourly timer: cleanupOldConversations, then                      *)
(* Helpers.cleanupCooldowns on the handler's cooldown map, then            *)
(* cleanupOldSettings, each with its default age.  First on a handler      *)
(* whose memory holds no conversation, with updateCooldown and             *)
(* checkResponseFrequency calls that fill the map and a clock that         *)
(* advances by a millisecond or a day; then on a memory with               *)
(* conversations thirty days old.                                          *)
(***************************************************************************)
EvictTickSteps == {1, OneDay}

\* Helpers.updateCooldown(cooldownMap, cooldown key of the contact)
EvictRecord(contactId) ==
    /\ nEvents < MaxChecks
    /\ nEvents' = nEvents + 1
    /\ cooldownMap' = updateCooldown(cooldownMap, CooldownKey(contactId), now)
    /\ lastOp' = [op |-> "updateCooldown", contact |-> contactId]
    /\ UNCHANGED <<now, memVars, appended, lastContext, restarts, userSettings,
                   responseFrequencyLimit, tasks, sent, admissions, ticks, boot,
                   cleanup, ignoredContacts, calls, overlapped,
                   responseHandler>>

\* MessageHandler.cleanup() up to its first wait: the list of the
\* conversations older than thirty days, deleted in the order of the cache,
\* and the first deleteConversation up to the removal of its files; with no
\* such conversation the whole call.  CleanupRemoveDone and
\* CleanupRemoveFails are its later steps, and the last of them goes on with
\* cleanupCooldowns and cleanupOldSettings (CleanupReturns)
MessageHandlerCleanup(order) ==
    /\ nEvents < MaxChecks
    /\ nEvents' = nEvents + 1
    /\ CleanupBegins(toDeleteDefault(conversations, now), order, "default", TRUE)

EvictNext ==
    \/ \E c \in Contacts : FreqCheck(c)
    \/ \E c \in Contacts : EvictRecord(c)
    \/ \E order \in Orders(toDeleteDefault(conversations, now)) :
           MessageHandlerCleanup(order)
    \/ \E d \in EvictTickSteps : FreqTick(d)

SpecEvict == FreqInit /\ [][EvictNext]_vars

\* the instant at which the handler with old conversations is observed
MaintenanceTime == 1500000000
MaxMaintenanceCalls == 3

\* the conversation memory was reloaded from a directory that holds the
\* history of conversation 111, written thirty days ago to the millisecond,
\* and the history of conversation 222, written thirty days or one day ago
MaintenanceInit ==
    /\ now = MaintenanceTime
    /\ \E n1 \in PriorCounts \ {0}, n2 \in StartupCounts2 :
       \E t2 \in {DaysBefore(MaintenanceTime, DefaultMaxAgeDays), MaintenanceTime - OneDay} :
           LET p1 == PersistedHistoryAt("111", n1,
                                        DaysBefore(MaintenanceTime, DefaultMaxAgeDays))
               p2 == PersistedHistoryAt("222", n2, t2)
           IN  /\ diskConv = [c \in StoreIds |-> IF c = "111" THEN p1.diskConv[c]
                                                ELSE p2.diskConv[c]]
               /\ diskSum = [c \in StoreIds |-> IF c = "111" THEN p1.diskSum[c]
                                               ELSE p2.diskSum[c]]
               /\ appended = PriorAppended(n1, n2)
    /\ conversations = loadConversations(diskConv, diskSum)
    /\ summaries = loadSummaries(diskConv, diskSum)
    /\ lastContext = None
    /\ restarts = 0
    /\ lastOp = [op |-> "init"]
    /\ PipeInit
    /\ responseFrequencyLimit = MaxFrequencyLimit

\* at most MaxMaintenanceCalls calls of updateCooldown, addMessage and
\* cleanup in a behaviour
MaintenanceNext ==
    \/ \E c \in Contacts : nEvents < MaxMaintenanceCalls /\ EvictRecord(c)
    \/ \E cid \in ConvIds : CleanupAddMessage(cid)
    \/ \E k \in CallSlots : MemWriteDone(k)
    \/ \E k \in CallSlots : MemSummaryWriteDone(k)
    \/ \E order \in Orders(toDeleteDefault(conversations, now)) :
           nEvents < MaxMaintenanceCalls /\ MessageHandlerCleanup(order)
    \/ \E file \in RemovedFiles : CleanupRemoveDone(file)
    \/ \E file \in RemovedFiles : CleanupRemoveFails(file)
    \/ \E d \in CleanupTickSteps : CleanupTick(d)

SpecMaintenance == MaintenanceInit /\ [][MaintenanceNext]_vars

\* the most recent timestamp of a map entry
MostRecent(entry) ==
    IF entry.kind = "ts" THEN entry.ts ELSE entry.list[Len(entry.list)]

\* C27: a call of cleanupCooldowns(maxAge) removes every entry, timestamp or
\* timestamp list, whose most recent timestamp is more than maxAge before
\* now, and leaves every other entry as it was (the call that
\* MessageHandler.cleanup makes, with the default maxAge).
C27_CooldownsEvicted ==
    [][lastOp'.op = "cleanup" =>
          \A key \in CooldownKeys :
              IF /\ cooldownMap[key].kind # "none"
                 /\ now - MostRecent(cooldownMap[key]) > DefaultCooldownMaxAge
              THEN cooldownMap'[key] = NoEntry
              ELSE cooldownMap'[key] = cooldownMap[key]
      ]_vars

\* C28: a call of checkResponseFrequency for a contact returns true exactly
\* when fewer than limit of the contact's recorded timestamps lie inside the
\* window; a call that returns true leaves the contact with those
\* timestamps and now as the one added to them, and the entries of the other
\* contacts as they were; a call that returns false leaves the recorded
\* timestamps of every contact as they were.
C28_FrequencyCheckExact ==
    [][lastOp'.op = "checkFrequency" =>
          LET key == FrequencyKey(lastOp'.contact)
              before == cooldownMap[key].list
              inside == SelectSeq(before, LAMBDA ts : ts > now - WindowMs)
          IN  /\ lastOp'.result <=> Len(inside) < responseFrequencyLimit
              /\ lastOp'.result =>
                     /\ cooldownMap'[key].kind = "list"
                     /\ cooldownMap'[key].list = Append(inside, now)
                     /\ \A k \in CooldownKeys \ {key} : cooldownMap'[k] = cooldownMap[k]
              /\ ~lastOp'.result =>
                     \A k \in CooldownKeys : cooldownMap'[k].list = cooldownMap[k].list
      ]_vars

\* a call for a contact was refused with limit timestamps inside the window,
\* after a call for the other contact had been recorded
C28_Witness ==
    /\ lastOp.op = "checkFrequency" /\ ~lastOp.result
    /\ Len(cooldownMap[FrequencyKey(lastOp.contact)].list) = responseFrequencyLimit
    /\ \E c \in Contacts \ {lastOp.contact} :
           Len(cooldownMap[FrequencyKey(c)].list) = 1

(***************************************************************************)
(* The short cooldown by itself: responses that are sent (sendResponse,    *)
(* messageHandler.js lines 118 and 144) and recorded when the send has     *)
(* returned (updateCooldown, lines 119 and 145), calls of                  *)
(* isCooldownExpired with the 1000 ms of line 102, and a clock that        *)
(* advances between any two of these steps and can put a call 999, 1000    *)
(* or 1001 ms after the record.                                            *)
(***************************************************************************)
\* sends and checks in a behaviour
MaxCooldownCalls == 4

CooldownTickSteps == {1, CooldownMs - 1}

\* isCooldownExpired reads the map with get (helpers.js line 140) and
\* writes nothing
isCooldownExpiredLeaves(map, key) == map

\* line 118: sendResponse calls the send callback with a response to the
\* contact, and the handler waits for it
CooldownSend(contactId) ==
    /\ nEvents < MaxCooldownCalls
    /\ nEvents' = nEvents + 1
    /\ sent' = Append(sent, [event |-> nEvents', to |-> contactId, text |-> "",
                             at |-> now, kind |-> "sending", recordedAt |-> 0])
    /\ lastOp' = [op |-> "sendResponse", contact |-> contactId]
    /\ UNCHANGED <<now, memVars, appended, lastContext, restarts, cooldownMap,
                   userSettings, responseFrequencyLimit, tasks, admissions, ticks,
                   boot, cleanup, ignoredContacts, calls, overlapped,
                   responseHandler>>

\* line 119: the i-th send has returned and updateCooldown records the
\* response at the time of the return
CooldownRecord(i) ==
    /\ i \in DOMAIN sent
    /\ sent[i].kind = "sending"
    /\ sent' = [sent EXCEPT ![i].kind = "recorded", ![i].recordedAt = now]
    /\ cooldownMap' = updateCooldown(cooldownMap, CooldownKey(sent[i].to), now)
    /\ lastOp' = [op |-> "updateCooldown", contact |-> sent[i].to]
    /\ UNCHANGED <<now, memVars, appended, lastContext, restarts, userSettings,
                   responseFrequencyLimit, tasks, nEvents, admissions, ticks, boot,
                   cleanup, ignoredContacts, calls, overlapped,
                   responseHandler>>

\* Helpers.isCooldownExpired(cooldownMap, cooldown key of the contact, 1000)
CooldownCheck(contactId) ==
    /\ nEvents < MaxCooldownCalls
    /\ nEvents' = nEvents + 1
    /\ cooldownMap' = isCooldownExpiredLeaves(cooldownMap, CooldownKey(contactId))
    /\ lastOp' = [op |-> "isCooldownExpired", contact |-> contactId,
                  result |-> isCooldownExpired(cooldownMap, CooldownKey(contactId),
                                               CooldownMs, now)]
    /\ UNCHANGED <<now, memVars, appended, lastContext, restarts, userSettings,
                   responseFrequencyLimit, tasks, sent, admissions, ticks, boot,
                   cleanup, ignoredContacts, calls, overlapped,
                   responseHandler>>

CooldownNext ==
    \/ \E c \in Contacts : CooldownSend(c)
    \/ \E i \in 1..MaxCooldownCalls : CooldownRecord(i)
    \/ \E c \in Contacts : CooldownCheck(c)
    \/ \E d \in CooldownTickSteps : FreqTick(d)

SpecCooldown == FreqInit /\ [][CooldownNext]_vars

\* the times at which a response to the contact was recorded
RecordedAt(contactId) ==
    {sent[i].recordedAt : i \in {j \in DOMAIN sent : /\ sent[j].to = contactId
                                                      /\ sent[j].kind = "recorded"}}

\* C29: a call of isCooldownExpired for a contact returns true exactly when
\* no response to the contact was recorded or at least 1000 ms have passed
\* since the last one was recorded, and it leaves the cooldown map as it was.
C29_CooldownCheckExact ==
    [][lastOp'.op = "isCooldownExpired" =>
          /\ lastOp'.result <=>
                 \/ RecordedAt(lastOp'.contact) = {}
                 \/ \A t \in RecordedAt(lastOp'.contact) : now - t >= CooldownMs
          /\ cooldownMap' = cooldownMap
      ]_vars

\* a call made exactly 1000 ms after the contact's last recorded response
\* returned true, that response having been sent before it was recorded
C29_Witness ==
    /\ lastOp.op = "isCooldownExpired" /\ lastOp.result
    /\ RecordedAt(lastOp.contact) # {}
    /\ \A t \in RecordedAt(lastOp.contact) : now - t = CooldownMs
    /\ \E i \in DOMAIN sent : /\ sent[i].to = lastOp.contact
                               /\ sent[i].kind = "recorded"
                               /\ sent[i].at < sent[i].recordedAt

\* every message appended to a conversation so far, in append order, as
\* addMessage stored it
EverAppended(cid) ==
    [k \in 1..appended[cid] |-> StoredMessage(MemMessage(cid, k), StartTime)]

\* C30: at every moment the retained messages of a conversation are the
\* last ones of all the messages ever appended to it, in append order and
\* each exactly as it was stored: nothing is reordered, dropped from the
\* middle or altered, at every step of every addMessage call and after
\* every restart.
C30_RetainedIsSuffix ==
    \A cid \in ConvIds :
        conversations[cid].kind = "conversation" =>
            LET retained == conversations[cid].messages
                all == EverAppended(cid)
            IN  /\ Len(retained) <= Len(all)
                /\ retained = SubSeq(all, Len(all) - Len(retained) + 1, Len(all))

\* the terms of a list of messages
TermsOf(messages) ==
    UNION {{Tokenize(messages[i].body)[j] : j \in 1..Len(Tokenize(messages[i].body))} :
              i \in 1..Len(messages)}

\* C31: when a step evicts messages of a conversation, the summary made in
\* that step counts exactly the evicted messages, its time range runs from
\* the timestamp of the first to that of the last evicted message, and its
\* keyTopics are at most 10 terms, each one a term of an evicted message.
C31_SummaryFromEvictedPrefix ==
    [][\A cid \in ConvIds :
          (/\ conversations[cid].kind = "conversation"
           /\ conversations'[cid].kind = "conversation"
           /\ Len(conversations'[cid].messages) < Len(conversations[cid].messages)) =>
              LET n == Len(conversations[cid].messages)
                           - Len(conversations'[cid].messages)
                  evicted == SubSeq(conversations[cid].messages, 1, n)
                  summary == summaries'[cid]
              IN  /\ summary.kind = "summary"
                  /\ summary.messageCount = n
                  /\ summary.timeRange.start = evicted[1].timestamp
                  /\ summary.timeRange.end = evicted[n].timestamp
                  /\ Len(summary.keyTopics) <= 10
                  /\ \A i \in 1..Len(summary.keyTopics) :
                         summary.keyTopics[i] \in TermsOf(evicted)
      ]_vars

\* a conversation has a summary and retains a message with a term that is
\* not among the key topics
C31_Witness ==
    \E cid \in ConvIds :
        /\ summaries[cid].kind = "summary"
        /\ conversations[cid].kind = "conversation"
        /\ summaries[cid].messageCount = summarizationThreshold - maxContextMessages
        /\ \E w \in TermsOf(conversations[cid].messages) :
               \A i \in 1..Len(summaries[cid].keyTopics) : summaries[cid].keyTopics[i] # w

(***************************************************************************)
(* extractKeyTopics by itself, on every list of up to MaxTopicMessages     *)
(* messages with the bodies of TopicBodies.                                *)
(***************************************************************************)
MaxTopicMessages == 3

TopicBodies == {"Hello world", "the 2024 plan, hello", "plan 7 for 365 days",
                "reply text", "hi"}

TopicInputs ==
    UNION {[1..n -> {[body |-> b] : b \in TopicBodies}] : n \in 0..MaxTopicMessages}

TopicsInit ==
    /\ now = StartTime
    /\ conversations = EmptyCache
    /\ summaries = EmptyStore
    /\ diskConv = EmptyStore
    /\ diskSum = EmptyStore
    /\ appended = [c \in StoreIds |-> 0]
    /\ lastContext = None
    /\ restarts = 0
    /\ PipeInit
    /\ responseFrequencyLimit = MaxFrequencyLimit
    /\ \E messages \in TopicInputs : lastOp = [op |-> "input", messages |-> messages]

ExtractKeyTopics ==
    /\ lastOp.op = "input"
    /\ lastOp' = [op |-> "extractKeyTopics", messages |-> lastOp.messages,
                  result |-> extractKeyTopics(lastOp.messages)]
    /\ UNCHANGED <<now, memVars, appended, lastContext, restarts, pipeVars>>

SpecTopics == TopicsInit /\ [][ExtractKeyTopics]_vars

\* the tokens by decreasing frequency, equal frequencies in the order of
\* first occurrence
TopicsByFrequency(messages) ==
    LET ws == AllWords(messages)
        sorted == SortByCount(FirstOccurrences(ws, {}), ws)
    IN  SubSeq(sorted, 1, Min(10, Len(sorted)))

\* C32: extractKeyTopics returns the (at most 10) most frequent tokens of
\* the messages by decreasing frequency, tokens of equal frequency in the
\* order of their first occurrence, numeric tokens like any other.
C32_TopicsByFrequency ==
    lastOp.op = "extractKeyTopics" =>
        lastOp.result = TopicsByFrequency(lastOp.messages)

\* C33: the context of a generation call is the result of
\* getConversationContext at the moment the event is admitted, before the
\* call; it stays the same through every step of other events while the call
\* is pending, and it is what the call holds when it ends, whatever was
\* appended or summarized meanwhile.
C33_ContextIsSnapshot ==
    [][\A e \in Events :
          /\ (tasks[e].pc # "generating" /\ tasks'[e].pc = "generating") =>
                 tasks'[e].context =
                     getConversationContext(conversations', summaries', ConvOf(e), 0)
          /\ (tasks[e].pc = "generating" /\ tasks'[e].pc = "generating") =>
                 tasks'[e].context = tasks[e].context
          /\ (tasks[e].pc = "generating" /\ tasks'[e].pc # "generating") =>
                 /\ lastContext'.cid = ConvOf(e)
                 /\ lastContext'.result = tasks[e].context
      ]_vars

\* no lock: while the generation call of an event was pending, a later event
\* of the same contact passed the filters and was appended; its message is in
\* the conversation and not in the context the call held to its end
C33_Witness ==
    \E e1 \in Events, e2 \in Events :
        /\ e1 < e2
        /\ tasks[e1].pc = "saveBot"
        /\ tasks[e2].pc \notin {"idle", "rejected"}
        /\ tasks[e2].from = tasks[e1].from
        /\ lastContext.kind = "context"
        /\ lastContext.cid = ConvOf(e1)
        /\ LET messages == conversations[ConvOf(e1)].messages
           IN  /\ Len(messages) >= 3
               /\ messages[Len(messages)].from = "bot"
               /\ messages[Len(messages) - 1] =
                      StoredMessage(InboundMessage(e2, tasks[e2].from, tasks[e2].body,
                                                   tasks[e2].arrivedAt),
                                    tasks[e2].arrivedAt)
               /\ \A j \in 1..Len(lastContext.result.messages) :
                      lastContext.result.messages[j] # messages[Len(messages) - 1]

(***************************************************************************)
(* Config.loadConfig (part_003 lines 18-68): every setting with an         *)
(* environment variable is  <value of the variable> || <default>.  A       *)
(* variable is unset or holds a string.                                    *)
(***************************************************************************)
Unset == "unset"

BooleanVariables == {"AUTO_RESPONSES_ENABLED", "ENABLE_COMMANDS", "IGNORE_GROUPS",
                     "QR_CODE_DISPLAY"}
NumericVariables == {"RESPONSE_DELAY", "RESPONSE_FREQUENCY_LIMIT"}

BooleanValues == {Unset, "true", "false"}
NumericValues == {Unset, "0", "5"}
NumericDefaults == {0, 10}

\* parseInt of a variable: NaN for an unset one (parseInt(undefined))
ParseInt(s) ==
    CASE s = "0" -> [nan |-> FALSE, value |-> 0]
      [] s = "5" -> [nan |-> FALSE, value |-> 5]
      [] OTHER -> [nan |-> TRUE, value |-> 0]

\* process.env.X === 'true' || default
booleanSetting(env, default) == (env = "true") \/ default

\* parseInt(process.env.X) || default: NaN and 0 are falsy
numericSetting(env, default) ==
    IF ParseInt(env).nan \/ ParseInt(env).value = 0 THEN default
    ELSE ParseInt(env).value

loadConfig(env, defaultConfig) ==
    [v \in BooleanVariables \cup NumericVariables |->
        IF v \in BooleanVariables THEN booleanSetting(env[v], defaultConfig[v])
        ELSE numericSetting(env[v], defaultConfig[v])]

\* the environments and default configurations of the model: the boolean
\* defaults are all true or all false
ConfigInputs ==
    {[env |-> [v \in BooleanVariables \cup NumericVariables |->
                  IF v \in BooleanVariables THEN be[v] ELSE ne[v]],
      defaultConfig |-> [v \in BooleanVariables \cup NumericVariables |->
                            IF v \in BooleanVariables THEN bd ELSE nd]] :
        be \in [BooleanVariables -> BooleanValues],
        ne \in [NumericVariables -> NumericValues],
        bd \in BOOLEAN, nd \in NumericDefaults}

ConfigInit ==
    /\ now = StartTime
    /\ conversations = EmptyCache
    /\ summaries = EmptyStore
    /\ diskConv = EmptyStore
    /\ diskSum = EmptyStore
    /\ appended = [c \in StoreIds |-> 0]
    /\ lastContext = None
    /\ restarts = 0
    /\ PipeInit
    /\ responseFrequencyLimit = MaxFrequencyLimit
    /\ \E input \in ConfigInputs :
           lastOp = [op |-> "input", env |-> input.env,
                     defaultConfig |-> input.defaultConfig]

\* new Config(): the constructor calls loadConfig
LoadConfig ==
    /\ lastOp.op = "input"
    /\ lastOp' = [op |-> "loadConfig", env |-> lastOp.env,
                  defaultConfig |-> lastOp.defaultConfig,
                  config |-> loadConfig(lastOp.env, lastOp.defaultConfig)]
    /\ UNCHANGED <<now, memVars, appended, lastContext, restarts, pipeVars>>

SpecConfig == ConfigInit /\ [][LoadConfig]_vars

\* C34: a setting whose environment variable is set has the value of the
\* variable: a boolean variable gives true for true and false for false, a
\* numeric variable gives its number, 0 included, whatever the default is.
C34_EnvironmentWins ==
    lastOp.op = "loadConfig" =>
        /\ \A v \in BooleanVariables :
               lastOp.env[v] # Unset => (lastOp.config[v] <=> lastOp.env[v] = "true")
        /\ \A v \in NumericVariables :
               lastOp.env[v] # Unset => lastOp.config[v] = ParseInt(lastOp.env[v]).value

\* an addMessage call has not returned yet
AppendInFlight ==
    \E e \in Events :
        tasks[e].pc \in {"saveInbound", "saveBot", "saveInboundSummary", "saveBotSummary"}

\* C35: whenever no addMessage call is in flight, every conversation retains
\* fewer than summarizationThreshold messages, also after addMessage calls
\* of one conversation have interleaved at their storage awaits.
C35_BelowThresholdAtRest ==
    ~AppendInFlight =>
        \A cid \in ConvIds :
            conversations[cid].kind = "conversation" =>
                Len(conversations[cid].messages) < summarizationThreshold

\* the record addMessage stores for the inbound message of an event
InboundRecord(e) ==
    StoredMessage(InboundMessage(e, tasks[e].from, tasks[e].body, tasks[e].arrivedAt),
                  tasks[e].arrivedAt)

Occurrences(x, s) == Cardinality({i \in 1..Len(s) : s[i] = x})

\* C36: the message of every event that has passed the filters is in its
\* conversation exactly once, whatever the event was (command, contact with
\* responses disabled, reply denied by the frequency limit); while its
\* append has not returned the event has caused no send, no frequency
\* check and no command effect; and no command reply is in a conversation.
C36_InboundRecordedFirst ==
    /\ \A e \in Events :
           /\ tasks[e].pc \notin {"idle", "rejected"} =>
                  /\ conversations[ConvOf(e)].kind = "conversation"
                  /\ Occurrences(InboundRecord(e), conversations[ConvOf(e)].messages) = 1
           /\ tasks[e].pc \in {"saveInbound", "saveInboundSummary"} =>
                  /\ SendsOf(e) = {}
                  /\ ~Admitted(e)
                  /\ tasks[e].response = ""
    /\ \A i \in DOMAIN sent :
           sent[i].kind = "command" =>
               \A cid \in ConvIds :
                   conversations[cid].kind = "conversation" =>
                       \A j \in 1..Len(conversations[cid].messages) :
                           conversations[cid].messages[j].body # sent[i].text

\* a contact has sent /stop and then a message that got no reply and no
\* generation call; both events are done and both messages are recorded
C36_Witness ==
    \E e1 \in Events, e2 \in Events :
        /\ e1 < e2
        /\ tasks[e1].from = tasks[e2].from
        /\ tasks[e1].body = "/stop" /\ tasks[e1].pc = "done"
        /\ tasks[e2].body = "Hello world" /\ tasks[e2].pc = "done"
        /\ SendsOf(e2) = {} /\ ~Admitted(e2)
        /\ Occurrences(InboundRecord(e1), conversations[ConvOf(e1)].messages) = 1
        /\ Occurrences(InboundRecord(e2), conversations[ConvOf(e2)].messages) = 1

\* C37: the step that routes a message that is not a command, of a contact
\* whose responses are disabled, ends the event and leaves the cooldown map
\* (the frequency timestamps and the short-cooldown timestamp of every
\* contact), the generation calls and the sends as they were.
C37_DisabledConsumesNoBudget ==
    [][\A e \in Events :
          (/\ tasks[e].pc \in {"saveInbound", "saveInboundSummary"}
           /\ tasks'[e].pc \notin {"saveInbound", "saveInboundSummary"}
           /\ ~isCommand(tasks[e].body)
           /\ userSettings[tasks[e].from].kind = "settings"
           /\ ~userSettings[tasks[e].from].responsesEnabled) =>
              /\ tasks'[e].pc = "done"
              /\ cooldownMap' = cooldownMap
              /\ admissions' = admissions
              /\ sent' = sent
      ]_vars

\* a contact with responses disabled has sent a message that is not a
\* command; the event is done and the contact has no frequency timestamp
C37_Witness ==
    \E e \in Events :
        /\ tasks[e].pc = "done"
        /\ tasks[e].body = "Hello world"
        /\ userSettings[tasks[e].from].kind = "settings"
        /\ ~userSettings[tasks[e].from].responsesEnabled
        /\ SendsOf(e) = {}
        /\ cooldownMap[FrequencyKey(tasks[e].from)].list = <<>>
        /\ \E e1 \in Events : e1 < e /\ tasks[e1].body = "/stop"
                                /\ tasks[e1].from = tasks[e].from

\* the sends of the next state are at most one per event and go to the
\* sender of the event; a rejected event has none
OneSendToSender ==
    /\ \A i \in DOMAIN sent', j \in DOMAIN sent' :
           sent'[i].event = sent'[j].event => i = j
    /\ \A i \in DOMAIN sent' : sent'[i].to = tasks'[sent'[i].event].from
    /\ \A e \in Events :
           tasks'[e].pc = "rejected" => \A i \in DOMAIN sent' : sent'[i].event # e

\* the event is routed in this step
Routed(e) ==
    /\ tasks[e].pc \in {"saveInbound", "saveInboundSummary"}
    /\ tasks'[e].pc \notin {"saveInbound", "saveInboundSummary"}

RespondingDisabled(e) ==
    /\ userSettings[tasks[e].from].kind = "settings"
    /\ ~userSettings[tasks[e].from].responsesEnabled

\* C38 as stated: every event causes at most one send, to its sender; a
\* filtered event causes none, an event of a contact whose responses are
\* disabled causes none, and an event denied by the frequency limit causes
\* none.
C38_AtMostOneSend ==
    [][/\ OneSendToSender
       /\ \A e \in Events :
              /\ (Routed(e) /\ RespondingDisabled(e)) => sent' = sent
              /\ (Routed(e) /\ ~isCommand(tasks[e].body) /\ ~RespondingDisabled(e)
                    /\ ~checkResponseFrequency(cooldownMap, tasks[e].from, now,
                                               responseFrequencyLimit)) =>
                     sent' = sent /\ tasks'[e].pc = "done"
      ]_vars

\* the command router answers the event: processCommand returns a text
\* (the prefix alone, with or without a blank, names no command and gets
\* none)
Answered(e) == processCommand(userSettings, tasks[e].from, tasks[e].body) # ""

\* C38 amended: every event causes at most one send, to its sender; a
\* filtered event causes none; an event that the command router does not
\* answer causes none when its contact has responses disabled or when the
\* frequency limit denies it; an event that the router answers gets its one
\* command reply, also when its contact has responses disabled.
C38_AtMostOneSendUnlessCommand ==
    [][/\ OneSendToSender
       /\ \A e \in Events :
              /\ (Routed(e) /\ Answered(e)) =>
                     /\ Len(sent') = Len(sent) + 1
                     /\ sent'[Len(sent')].event = e
                     /\ sent'[Len(sent')].kind = "command"
              /\ (Routed(e) /\ ~Answered(e) /\ RespondingDisabled(e)) =>
                     sent' = sent /\ tasks'[e].pc = "done"
              /\ (Routed(e) /\ ~Answered(e) /\ ~RespondingDisabled(e)
                    /\ ~checkResponseFrequency(cooldownMap, tasks[e].from, now,
                                               responseFrequencyLimit)) =>
                     sent' = sent /\ tasks'[e].pc = "done"
      ]_vars

\* a contact has disabled its responses with /stop, and its next event, an
\* unknown command, has its one command reply while the responses are
\* still disabled
C38_Witness ==
    \E e1 \in Events, e2 \in Events :
        /\ e1 < e2
        /\ tasks[e1].from = tasks[e2].from
        /\ tasks[e1].body = "/stop"
        /\ tasks[e2].body = "/xyz"
        /\ tasks[e2].pc = "done" /\ tasks[e2].stage = "pass"
        /\ RespondingDisabled(e2)
        /\ Cardinality(SendsOf(e2)) = 1
        /\ \A i \in SendsOf(e2) : sent[i].kind = "command" /\ sent[i].to = tasks[e2].from

(***************************************************************************)
(* Sends that fail.  WhatsAppAIBot.sendMessage returns without sending     *)
(* when the client is not ready and catches the error of the client        *)
(* (gemini.js lines 386-403); sendResponse catches whatever the callback   *)
(* throws (messageHandler.js lines 210-236).  Either way sendResponse      *)
(* returns normally and handleMessage goes on to updateCooldown.           *)
(***************************************************************************)
SendFailures == {"transport error", "not ready"}

\* a handler that leaves the cooldown alone when the send has failed
afterFailedSendSkipped(cooldowns, from, t) == cooldowns

\* handleMessage lines 119 and 145 after a sendResponse whose send failed
afterFailedSend(cooldowns, from, t) == updateCooldown(cooldowns, CooldownKey(from), t)

SendFails(e, failure) ==
    /\ tasks[e].pc \in {"sendCommand", "sendResponse"}
    /\ cooldownMap' = afterFailedSend(cooldownMap, tasks[e].from, now)
    /\ tasks' = [tasks EXCEPT ![e].pc = "done"]
    /\ lastOp' = [op |-> "sendFailed", event |-> e, failure |-> failure]
    /\ UNCHANGED <<now, memVars, appended, lastContext, restarts, userSettings,
                   responseFrequencyLimit, nEvents, sent, admissions, ticks, boot,
                   cleanup, ignoredContacts, calls, overlapped,
                   responseHandler>>

SendNext ==
    \/ \E m \in FaultMessages : Receive(m)
    \/ \E e \in Events : WriteDone(e)
    \/ \E e \in Events, outcome \in GenOutcomes, text \in ResponseTexts :
           GenerationDone(e, outcome, text)
    \/ \E e \in Events : SendDone(e)
    \/ \E e \in Events, failure \in SendFailures : SendFails(e, failure)

SpecSend == LiveInit /\ [][SendNext]_vars

\* C39: the step in which the send of an event fails or is dropped ends the
\* event normally; it records the short cooldown of the contact at that
\* time, makes no further send call, leaves the frequency timestamps and
\* the conversations as they were, and when the reply was a generated one
\* the agent's message is the last of the conversation.
C39_FailedSendGoesOn ==
    [][lastOp'.op = "sendFailed" =>
          LET e == lastOp'.event
              from == tasks[e].from
          IN  /\ tasks'[e].pc = "done"
              /\ tasks'[e].outcome # "exception"
              /\ cooldownMap'[CooldownKey(from)] = TsEntry(now)
              /\ \A c \in Contacts :
                     cooldownMap'[FrequencyKey(c)] = cooldownMap[FrequencyKey(c)]
              /\ sent' = sent
              /\ Cardinality(SendsOf(e)) = 1
              /\ admissions' = admissions
              /\ conversations' = conversations
              /\ tasks[e].pc = "sendResponse" =>
                     /\ Admitted(e)
                     /\ Len(cooldownMap'[FrequencyKey(from)].list) >= 1
                     /\ \E i \in 1..Len(conversations'[ConvOf(e)].messages) :
                            /\ conversations'[ConvOf(e)].messages[i].from = "bot"
                            /\ conversations'[ConvOf(e)].messages[i].body
                                   = tasks[e].response
      ]_vars

\* the send of a generated reply has failed: the event is done, the contact
\* has its cooldown and its frequency timestamp, and the reply is in memory
C39_Witness ==
    /\ lastOp.op = "sendFailed"
    /\ tasks[lastOp.event].pc = "done"
    /\ tasks[lastOp.event].body = "Hello world"
    /\ cooldownMap[CooldownKey(tasks[lastOp.event].from)].kind = "ts"
    /\ Len(cooldownMap[FrequencyKey(tasks[lastOp.event].from)].list) = 1
    /\ Cardinality(SendsOf(lastOp.event)) = 1

(***************************************************************************)
(* Helpers.generateConversationId on identifiers as strings of characters  *)
(* (helpers.js lines 26-29): replace('@c.us', '') removes the first        *)
(* occurrence of the suffix, replace(/[^a-zA-Z0-9]/g, '_') turns every     *)
(* other character that is not a letter or a digit into an underscore.     *)
(* The function is static and takes any string; the specification applies  *)
(* it to two arguments and stores nothing.  (handleMessage line 110 is one *)
(* of its callers, with the sender of a message that passed the filters;   *)
(* what that handler does with the id is in the pipeline above.)           *)
(***************************************************************************)
MaxLocalLen == 3

LocalChars == {"1", "-", "_"}
Suffixes == {<<"@", "c", ".", "u", "s">>, <<"@", "g", ".", "u", "s">>}

\* arguments of the function: a local part that starts with a digit, and
\* the suffix of an individual chat or of a group chat
ContactIds ==
    {l \o x : l \in UNION {{<<"1">> \o t : t \in [1..n -> LocalChars]} :
                              n \in 0..(MaxLocalLen - 1)},
              x \in Suffixes}

IsAlphanumeric(ch) == ch \in {"1", "c", "g", "u", "s"}

\* String.prototype.replace(pattern, '') with a string pattern
RemoveFirst(s, pattern) ==
    LET n == Len(pattern)
        hits == {i \in 1..(Len(s) - n + 1) : SubSeq(s, i, i + n - 1) = pattern}
    IN  IF hits = {} THEN s
        ELSE LET i == CHOOSE h \in hits : \A k \in hits : h <= k
             IN  SubSeq(s, 1, i - 1) \o SubSeq(s, i + n, Len(s))

generateConversationIdOf(contactId) ==
    LET stripped == RemoveFirst(contactId, <<"@", "c", ".", "u", "s">>)
    IN  [i \in 1..Len(stripped) |->
            IF IsAlphanumeric(stripped[i]) THEN stripped[i] ELSE "_"]

IdsInit ==
    /\ now = StartTime
    /\ conversations = EmptyCache
    /\ summaries = EmptyStore
    /\ diskConv = EmptyStore
    /\ diskSum = EmptyStore
    /\ appended = [c \in StoreIds |-> 0]
    /\ lastContext = None
    /\ restarts = 0
    /\ PipeInit
    /\ responseFrequencyLimit = MaxFrequencyLimit
    /\ \E first \in ContactIds, second \in ContactIds :
           lastOp = [op |-> "input", first |-> first, second |-> second]

\* Helpers.generateConversationId(first) and
\* Helpers.generateConversationId(second)
GenerateConversationIds ==
    /\ lastOp.op = "input"
    /\ lastOp' = [op |-> "generateConversationId",
                  first |-> lastOp.first, second |-> lastOp.second,
                  firstId |-> generateConversationIdOf(lastOp.first),
                  secondId |-> generateConversationIdOf(lastOp.second)]
    /\ UNCHANGED <<now, memVars, appended, lastContext, restarts, pipeVars>>

SpecIds == IdsInit /\ [][GenerateConversationIds]_vars

\* C40: generateConversationId gives one contact identifier one
\* conversation id and two different contact identifiers two different
\* conversation ids, so that no two contacts share a conversation.
C40_DistinctConversationIds ==
    lastOp.op = "generateConversationId" =>
        (lastOp.firstId = lastOp.secondId <=> lastOp.first = lastOp.second)

(***************************************************************************)
(* The ignore list changed while the handler runs.  addIgnoredContact and  *)
(* removeIgnoredContact (messageHandler.js lines 348-360) are public and   *)
(* synchronous; nothing in the repository calls them, a program that       *)
(* embeds the handler can, between any two steps of the pipeline.  The     *)
(* filter of handleMessage (line 63) reads the set as it is when the       *)
(* event arrives.                                                          *)
(***************************************************************************)
IgnoreContacts == {"111@c.us", "999@c.us"}

IgnoreMessages == {Message(c, "Hello world", FALSE) : c \in IgnoreContacts}

\* this.ignoredContacts.add(contactId)
AddIgnoredContact(contactId) ==
    /\ ignoredContacts' = ignoredContacts \cup {contactId}
    /\ lastOp' = [op |-> "step"]
    /\ UNCHANGED <<now, memVars, appended, lastContext, restarts, cooldownMap,
                   userSettings, responseFrequencyLimit, tasks, nEvents, sent,
                   admissions, ticks, boot, cleanup, calls, overlapped, responseHandler>>

\* this.ignoredContacts.delete(contactId)
RemoveIgnoredContact(contactId) ==
    /\ ignoredContacts' = ignoredContacts \ {contactId}
    /\ lastOp' = [op |-> "step"]
    /\ UNCHANGED <<now, memVars, appended, lastContext, restarts, cooldownMap,
                   userSettings, responseFrequencyLimit, tasks, nEvents, sent,
                   admissions, ticks, boot, cleanup, calls, overlapped, responseHandler>>

IgnoreNext ==
    \/ \E m \in IgnoreMessages : Receive(m)
    \/ \E e \in Events : WriteDone(e)
    \/ \E e \in Events, outcome \in GenOutcomes, text \in ResponseTexts :
            GenerationDone(e, outcome, text)
    \/ \E e \in Events : SendDone(e)
    \/ \E c \in IgnoreContacts : AddIgnoredContact(c)
    \/ \E c \in IgnoreContacts : RemoveIgnoredContact(c)

SpecIgnore == LiveInit /\ [][IgnoreNext]_vars

====
